---------------------------- MODULE Spec2Model ----------------------------
(***************************************************************************)
(* Model of the recipe API.                                                *)
(*                                                                         *)
(* The authentication subsystem (specification Spec):                      *)
(*   auth/auth_service.go      AuthService (token registry, RWMutex)       *)
(*   handlers/auth_handler.go  HandleLogin, HandleLogout, AuthMiddleware   *)
(*   storage (user storage)    PostgresUserStorage.ValidateCredentials     *)
(*   main.go                   hourly cleanup goroutine                    *)
(*                                                                         *)
(* The recipe stores:                                                      *)
(*   storage/json_storage.go   JSONStorage (recipes.json, RWMutex)         *)
(*   PostgresStorage           the recipes table and its queries           *)
(*   RecipeHandler             the HTTP handlers on a JSONStorage          *)
(* SpecPair makes the same SaveRecipe, DeleteRecipe and GetAllRecipes      *)
(* calls on both stores, one call at a time.  SpecStore runs the handlers  *)
(* concurrently on the file-backed store, one step per lock operation,    *)
(* file read, file write and clock reading; os.WriteFile can fail before   *)
(* or after it has truncated the file.  SpecSearch fills the table with    *)
(* SaveRecipe calls and searches it, and SpecMenu does the same with two   *)
(* chocolate recipes.  SpecRows runs SaveRecipe calls concurrently on the  *)
(* relational store, one step per SQL statement.                           *)
(*                                                                         *)
(* SpecUsers serves logins and protected requests while an administrator   *)
(* deactivates a user or sets a password.  SpecLive adds to the token      *)
(* registry the fairness of the Go scheduler and of the passing of time.   *)
(* SpecConfig starts the server on config files with other values of       *)
(* token_expiry_hours.  SpecFair runs every operation of the registry and  *)
(* of the file-backed store under fair scheduling.  SpecNew constructs the *)
(* JSONStorage on a disk where the recipes file is absent or present.      *)
(*                                                                         *)
(* HTTP requests are served by concurrent workers.  Every access to the    *)
(* shared token map, the clock and the users table is a separate step, so  *)
(* that all interleavings the Go scheduler allows are explored.            *)
(*                                                                         *)
(* Time is counted in ticks of one hour.  Tokens are numbered in the order *)
(* crypto/rand produces them: 32 random bytes never repeat and cannot be   *)
(* guessed, so a client can present only a token it was handed, the empty  *)
(* string, or a string that is never issued.                               *)
(*                                                                         *)
(* A handler's steps up to its first Lock or RLock touch no shared state   *)
(* and are taken together with it.  Lock is two steps: the writer mutex is *)
(* taken (new readers then wait), and the body runs once the readers that  *)
(* were inside have left.  The server accepts MaxRequests requests and the *)
(* clock runs to MaxTime; config.yaml sets token_expiry_hours to 1.        *)
(***************************************************************************)
EXTENDS Integers, FiniteSets, Sequences, TLC

\* ------------------------------------------------------------------ bounds
MaxTime == 2
MaxRequests == 3

\* --------------------------------------------------------------- constants
Hour == 1
DefaultTokenExpiryHours == 24
StatusOK == 200
StatusBadRequest == 400
StatusUnauthorized == 401
StatusMethodNotAllowed == 405
StatusInternalServerError == 500

Workers == {"w1", "w2"}
Cleaner == "cleaner"
Remover == "remover"
NoHolder == "none"

EmptyToken == 0
BogusToken == 0 - 1
TokenIds == 1..MaxRequests

VARIABLES
    now,            \* the wall clock, time.Now()
    config,         \* AuthService.config.TokenExpiryHours after loadConfig
    users,          \* the users table of the relational store
    activeTokens,   \* AuthService.activeTokens
    mutexW,         \* AuthService.mutex: the goroutine that called Lock
    mutexReaders,   \* AuthService.mutex: the goroutines holding RLock
    nextToken,      \* number of tokens crypto/rand has produced so far + 1
    served,         \* number of requests the server has accepted so far
    pc,             \* position of every worker in its handler
    req,            \* the HTTP request a worker is serving
    loc,            \* local variables of the handler a worker runs
    resp,           \* the HTTP response a worker has written
    rmPending,      \* removeToken goroutines spawned and not yet in Lock
    rmActive,       \* the removeToken goroutine that is inside Lock
    tickerC,        \* the cleanup ticker's channel (capacity one)
    cleaner,        \* the cleanup goroutine of main
    issuedLog,      \* history: what GenerateToken was called with, per token
    handedOut,      \* history: tokens returned to a client by a login
    revoked,        \* history: tokens InvalidateToken deleted
    revokeReturned, \* history: tokens for which InvalidateToken returned
    recipesFile,    \* JSONStorage: the contents of the file at filePath
    jsMutexW,       \* JSONStorage.mutex: the goroutine that called Lock
    jsMutexReaders, \* JSONStorage.mutex: the goroutines holding RLock
    recipesTable,   \* PostgresStorage: the rows of table recipes, by id
    nextUUID,       \* number of ids uuid.New() has produced so far + 1
    rpc,            \* position of every worker in its recipe handler
    rloc,           \* local variables of the recipe handler a worker runs
    rresp,          \* the HTTP response a recipe handler wrote last
    committed,      \* history: per id, the recipe of the last SaveRecipe
                    \* that returned nil with no later call for that id
    lastCall        \* the last call made on both stores, with what each
                    \* store returned

\* the variables of the recipe stores and their handlers
storeVars == <<recipesFile, jsMutexW, jsMutexReaders, recipesTable, nextUUID,
               rpc, rloc, rresp, committed, lastCall>>

\* the variables of the token registry that no recipe operation writes
authVars == <<config, users, activeTokens, mutexW, mutexReaders, nextToken,
              pc, req, loc, resp, rmPending, rmActive, tickerC, cleaner,
              issuedLog, handedOut, revoked, revokeReturned>>

vars == <<now, config, users, activeTokens, mutexW, mutexReaders, nextToken,
          served,
          pc, req, loc, resp, rmPending, rmActive, tickerC, cleaner,
          issuedLog, handedOut, revoked, revokeReturned,
          recipesFile, jsMutexW, jsMutexReaders, recipesTable, nextUUID,
          rpc, rloc, rresp, committed, lastCall>>

\* ------------------------------------------------------------ credentials
\* bcrypt: the stored hash carries its salt; comparing re-hashes the
\* supplied password with that salt.
Bcrypt(salt, password) == <<"$2a$", salt, password>>
CompareHashAndPassword(hash, password) == hash = Bcrypt(hash[2], password)

Usernames == {"admin", "chef"}

NilUser == [ID |-> 0, Username |-> "", Password |-> <<"$2a$", "", "">>,
            IsActive |-> FALSE]

\* migration seed: users admin (id 1) and chef (id 3), both active
SeedUsers ==
    {[ID |-> 1, Username |-> "admin",
      Password |-> Bcrypt("s1", "admin123"), IsActive |-> TRUE],
     [ID |-> 3, Username |-> "chef",
      Password |-> Bcrypt("s3", "cooking456"), IsActive |-> TRUE]}

\* PostgresUserStorage.GetUserByUsername: WHERE username = $1 AND is_active
GetUserByUsername_AnyStatus(table, username) ==
    LET rows == {u \in table : u.Username = username}
    IN  IF rows = {}
        THEN [user |-> NilUser, err |-> "user not found"]
        ELSE [user |-> CHOOSE u \in rows : TRUE, err |-> "nil"]

GetUserByUsername(table, username) ==
    LET rows == {u \in table : u.Username = username /\ u.IsActive}
    IN  IF rows = {}
        THEN [user |-> NilUser, err |-> "user not found"]
        ELSE [user |-> CHOOSE u \in rows : TRUE, err |-> "nil"]

\* PostgresUserStorage.ValidateCredentials
StorageValidateCredentials(table, username, password) ==
    LET r == GetUserByUsername(table, username)
    IN  IF r.err # "nil"
        THEN [user |-> NilUser, err |-> r.err]
        ELSE IF ~CompareHashAndPassword(r.user.Password, password)
             THEN [user |-> NilUser, err |-> "invalid credentials"]
             ELSE [user |-> r.user, err |-> "nil"]

\* PostgresUserStorage.DeleteUser: UPDATE users SET is_active = false
\* WHERE id = $1, and an error when no row has the id
StorageDeleteUser(table, id) ==
    IF \A u \in table : u.ID # id
    THEN [table |-> table, err |-> "user not found"]
    ELSE [table |-> {IF u.ID = id THEN [u EXCEPT !.IsActive = FALSE] ELSE u :
                        u \in table},
          err |-> "nil"]

\* PostgresUserStorage.UpdatePassword: the new password is hashed with a
\* salt of its own and stored, for active and inactive users alike
StorageUpdatePassword(table, userID, newPassword) ==
    IF \A u \in table : u.ID # userID
    THEN [table |-> table, err |-> "user not found"]
    ELSE [table |-> {IF u.ID = userID
                     THEN [u EXCEPT !.Password = Bcrypt("s9", newPassword)]
                     ELSE u : u \in table},
          err |-> "nil"]

\* AuthService.ValidateCredentials: any storage error becomes valid = false
ValidateCredentials_OnlyNotFound(table, username, password) ==
    LET r == GetUserByUsername(table, username)
    IN  IF r.err # "nil"
        THEN [user |-> NilUser, valid |-> FALSE]
        ELSE [user |-> r.user, valid |-> TRUE]

ValidateCredentials_IgnoreErr(table, username, password) ==
    LET r == StorageValidateCredentials(table, username, password)
    IN  [user |-> r.user, valid |-> TRUE]

ValidateCredentials(table, username, password) ==
    LET r == StorageValidateCredentials(table, username, password)
    IN  IF r.err # "nil"
        THEN [user |-> NilUser, valid |-> FALSE]
        ELSE [user |-> r.user, valid |-> TRUE]

\* ------------------------------------------------------------ token model
NilInfo == [Username |-> "", UserID |-> 0, CreatedAt |-> 0, ExpiresAt |-> 0]

\* token_expiry_hours of config.yaml: tokens live one hour
ConfigFileExpiry == {1}

\* loadConfig: token_expiry_hours absent or 0 becomes 24
LoadConfigExpiry(raw) == IF raw = 0 THEN DefaultTokenExpiryHours ELSE raw

\* time.Time.After
After(t, u) == t > u

\* ValidateToken's expiry test: time.Now().After(tokenInfo.ExpiresAt)
IsExpired_Never(info, t) == FALSE

IsExpired_OrInactive(info, t) ==
    \/ After(t, info.ExpiresAt)
    \/ \A u \in users : u.ID = info.UserID => ~u.IsActive

IsExpired_AtExpiry(info, t) == t >= info.ExpiresAt

IsExpired(info, t) == After(t, info.ExpiresAt)

\* the TokenInfo GenerateToken stores
NewTokenInfo_NoUserID(user, t) ==
    [Username |-> user.Username, UserID |-> 0,
     CreatedAt |-> t, ExpiresAt |-> t + config * Hour]

NewTokenInfo(user, t) ==
    [Username |-> user.Username, UserID |-> user.ID,
     CreatedAt |-> t, ExpiresAt |-> t + config * Hour]

\* delete(as.activeTokens, token)
MapDelete_SameUser(m, token) ==
    IF token \in DOMAIN m
    THEN [x \in {y \in DOMAIN m : m[y].Username # m[token].Username} |-> m[x]]
    ELSE m

MapDelete(m, token) == [x \in (DOMAIN m) \ {token} |-> m[x]]

\* as.activeTokens[token] = info
MapPut_SameUser(m, token, info) ==
    [x \in (DOMAIN m) \cup {token} |->
        IF x = token THEN info
        ELSE IF m[x].Username = info.Username THEN info
        ELSE m[x]]

MapPut(m, token, info) ==
    [x \in (DOMAIN m) \cup {token} |-> IF x = token THEN info ELSE m[x]]

\* the loop of CleanupExpiredTokens
SweepExpired_AtExpiry(m, t) ==
    [x \in {y \in DOMAIN m : t < m[y].ExpiresAt} |-> m[x]]

SweepExpired_Never(m, t) == m

SweepExpired(m, t) ==
    [x \in {y \in DOMAIN m : ~After(t, m[y].ExpiresAt)} |-> m[x]]

\* ------------------------------------------------------------ HTTP pieces
NoHeader == [scheme |-> "", rest |-> EmptyToken]

\* AuthHandler.extractTokenFromHeader
extractTokenFromHeader(h) ==
    IF h = NoHeader THEN EmptyToken
    ELSE IF h.scheme = "Bearer " THEN h.rest
    ELSE EmptyToken

\* the Authorization headers a client can send
Headers ==
    {NoHeader}
    \cup {[scheme |-> "Bearer ", rest |-> t] :
             t \in handedOut \cup {EmptyToken, BogusToken}}
    \cup {[scheme |-> "Basic ", rest |-> BogusToken]}

NoReq == [op |-> "", method |-> "", header |-> NoHeader,
          username |-> "", password |-> ""]
NoLoc == [token |-> EmptyToken, user |-> NilUser, err |-> "nil",
          info |-> NilInfo, ok |-> FALSE, vnow |-> 0, ret |-> FALSE,
          knownAtCall |-> FALSE, revokedAtCall |-> FALSE,
          revokeDoneAtCall |-> FALSE]
NoResp == [status |-> 0, error |-> "", token |-> EmptyToken,
           nextCalled |-> FALSE]

\* AuthHandler.sendLoginError
sendLoginError(message, statusCode) ==
    [status |-> statusCode, error |-> message, token |-> EmptyToken,
     nextCalled |-> FALSE]

sendOK(token) ==
    [status |-> StatusOK, error |-> "", token |-> token,
     nextCalled |-> FALSE]

\* ------------------------------------------------------------ sync.RWMutex
\* Lock: take the writer mutex, which also stops new readers...
LockAcquire(h) ==
    /\ mutexW = NoHolder
    /\ mutexW' = h
    /\ UNCHANGED mutexReaders

\* ...then wait until the readers that are inside have left
LockEntered_NoWait(h) == mutexW = h

LockEntered(h) == mutexW = h /\ mutexReaders = {}

Unlock(h) ==
    /\ mutexW' = NoHolder
    /\ UNCHANGED mutexReaders

RLock(h) ==
    /\ mutexW = NoHolder
    /\ mutexReaders' = mutexReaders \cup {h}
    /\ UNCHANGED mutexW

RUnlock(h) ==
    /\ mutexReaders' = mutexReaders \ {h}
    /\ UNCHANGED mutexW

\* ------------------------------------------------------------ recipes
StatusCreated == 201
StatusNotFound == 404

\* ids: the empty string, the ids uuid.New() produces (numbered in the
\* order they are produced; they never repeat), and well-formed UUIDs a
\* client made up itself
EmptyID == 0
UnknownUUID == 0 - 1
ClientUUIDs == {UnknownUUID, 0 - 2}

\* time.Time{}: the zero time, before every reading of the clock
ZeroTime == 0 - 1

\* strings that are searched or compared letter by letter are sequences
\* of letters
Soup ==
    [Name |-> <<"S", "o", "u", "p">>,
     Ingredients |-> << <<"w", "a", "t", "e", "r">>, <<"s", "a", "l", "t">> >>,
     Instructions |-> "boil", CookingTime |-> "10 minutes",
     Servings |-> 2, Category |-> "starter"]

Cake ==
    [Name |-> <<"C", "a", "k", "e">>,
     Ingredients |-> << <<"e", "g", "g">> >>,
     Instructions |-> "bake", CookingTime |-> "1 hour",
     Servings |-> 8, Category |-> "dessert"]

\* the recipe bodies a client sends that pass Validate: the soup, the
\* soup for four, and the cake
Bodies == {Soup, [Soup EXCEPT !.Servings = 4], Cake}

\* a body that fails Validate
NoServings == [Soup EXCEPT !.Servings = 0]

\* models.Recipe.Validate
Validate(r) ==
    IF r.Name = <<>> THEN "recipe name is required"
    ELSE IF Len(r.Ingredients) = 0 THEN "at least one ingredient is required"
    ELSE IF r.Instructions = "" THEN "instructions are required"
    ELSE IF r.CookingTime = "" THEN "cooking time is required"
    ELSE IF r.Servings <= 0 THEN "servings must be greater than 0"
    ELSE IF r.Category = "" THEN "category is required"
    ELSE "nil"

\* models.Recipe
MakeRecipe(id, body, createdAt, updatedAt) ==
    [ID |-> id, Name |-> body.Name, Ingredients |-> body.Ingredients,
     Instructions |-> body.Instructions, CookingTime |-> body.CookingTime,
     Servings |-> body.Servings, Category |-> body.Category,
     CreatedAt |-> createdAt, UpdatedAt |-> updatedAt]

NilRecipe ==
    [ID |-> EmptyID, Name |-> <<>>, Ingredients |-> <<>>,
     Instructions |-> "", CookingTime |-> "", Servings |-> 0,
     Category |-> "", CreatedAt |-> ZeroTime, UpdatedAt |-> ZeroTime]

\* the fields of a recipe a client sets
BodyOf(r) ==
    [Name |-> r.Name, Ingredients |-> r.Ingredients,
     Instructions |-> r.Instructions, CookingTime |-> r.CookingTime,
     Servings |-> r.Servings, Category |-> r.Category]

\* -------------------------------------------------------------- JSONStorage
\* The file holds what the last write left: a JSON document that parses to
\* a list of recipes, or bytes that do not parse.
\* NewJSONStorage on a path without a file: saveRecipes([]models.Recipe{})
EmptyJSONFile == [parses |-> TRUE, recipes |-> <<>>]

\* what a write that stopped part-way leaves: the file was truncated when
\* it was opened and holds a prefix of the document
PartialFile == [parses |-> FALSE, recipes |-> <<>>]

\* json.MarshalIndent of a list of recipes
MarshalIndent(recipes) == [parses |-> TRUE, recipes |-> recipes]

\* json.Unmarshal into []models.Recipe
Unmarshal(data) ==
    IF data.parses
    THEN [recipes |-> data.recipes, err |-> "nil"]
    ELSE [recipes |-> <<>>, err |-> "failed to parse recipes"]

\* JSONStorage.getAllRecipesUnsafe: os.ReadFile and json.Unmarshal
getAllRecipesUnsafe(data) == Unmarshal(data)

\* os.WriteFile opens the file with O_TRUNC and then writes: it succeeds,
\* fails before the file is touched, or fails after the truncation
WriteOutcomes == {"ok", "open failed", "write failed"}

WriteFile(old, data, outcome) ==
    IF outcome = "ok" THEN [file |-> data, err |-> "nil"]
    ELSE IF outcome = "open failed"
    THEN [file |-> old, err |-> "failed to write recipes file"]
    ELSE [file |-> PartialFile, err |-> "failed to write recipes file"]

\* JSONStorage.saveRecipes
saveRecipes(old, recipes, outcome) ==
    WriteFile(old, MarshalIndent(recipes), outcome)

\* the first index whose recipe has the id, 0 when there is none
IndexOfID(recipes, id) ==
    IF \E i \in 1..Len(recipes) : recipes[i].ID = id
    THEN CHOOSE i \in 1..Len(recipes) :
            /\ recipes[i].ID = id
            /\ \A j \in 1..(i - 1) : recipes[j].ID # id
    ELSE 0

\* the loop of SaveRecipe and the append after it
SaveLoop_AlwaysAppend(recipes, recipe) == Append(recipes, recipe)

SaveLoop(recipes, recipe) ==
    LET i == IndexOfID(recipes, recipe.ID)
    IN  IF i # 0 THEN [recipes EXCEPT ![i] = recipe]
        ELSE Append(recipes, recipe)

\* the loop of DeleteRecipe
DeleteLoop_DropTail(recipes, id) ==
    LET i == IndexOfID(recipes, id)
    IN  IF i = 0 THEN [found |-> FALSE, recipes |-> recipes]
        ELSE [found |-> TRUE, recipes |-> SubSeq(recipes, 1, i - 1)]

DeleteLoop(recipes, id) ==
    LET i == IndexOfID(recipes, id)
    IN  IF i = 0 THEN [found |-> FALSE, recipes |-> recipes]
        ELSE [found |-> TRUE,
              recipes |-> SubSeq(recipes, 1, i - 1)
                          \o SubSeq(recipes, i + 1, Len(recipes))]

\* JSONStorage.GetAllRecipes
JSONGetAllRecipes(data) == Unmarshal(data)

\* JSONStorage.GetRecipeByID, given what GetAllRecipes returned
FindByID(r, id) ==
    IF r.err # "nil" THEN [recipe |-> NilRecipe, err |-> r.err]
    ELSE IF IndexOfID(r.recipes, id) = 0
    THEN [recipe |-> NilRecipe, err |-> "not found"]
    ELSE [recipe |-> r.recipes[IndexOfID(r.recipes, id)], err |-> "nil"]

\* JSONStorage.SaveRecipe run from Lock to Unlock
JSONSaveRecipe(data, recipe, outcome) ==
    LET r == getAllRecipesUnsafe(data)
    IN  IF r.err # "nil" THEN [file |-> data, err |-> r.err]
        ELSE saveRecipes(data, SaveLoop(r.recipes, recipe), outcome)

\* JSONStorage.DeleteRecipe run from Lock to Unlock
JSONDeleteRecipe(data, id, outcome) ==
    LET r == getAllRecipesUnsafe(data)
        d == DeleteLoop(r.recipes, id)
    IN  IF r.err # "nil" THEN [file |-> data, err |-> r.err]
        ELSE IF ~d.found THEN [file |-> data, err |-> "not found"]
        ELSE saveRecipes(data, d.recipes, outcome)

\* JSONStorage.mutex
JsLockAcquire_Barging(h) ==
    /\ jsMutexW' = h
    /\ UNCHANGED jsMutexReaders

JsLockAcquire(h) ==
    /\ jsMutexW = NoHolder
    /\ jsMutexW' = h
    /\ UNCHANGED jsMutexReaders

JsLockEntered(h) == jsMutexW = h /\ jsMutexReaders = {}

JsUnlock(h) ==
    /\ jsMutexW' = NoHolder
    /\ UNCHANGED jsMutexReaders

JsRLock(h) ==
    /\ jsMutexW = NoHolder
    /\ jsMutexReaders' = jsMutexReaders \cup {h}
    /\ UNCHANGED jsMutexW

JsRUnlock(h) ==
    /\ jsMutexReaders' = jsMutexReaders \ {h}
    /\ UNCHANGED jsMutexW

\* ---------------------------------------------------------- PostgresStorage
\* the acting identity the handler passes: the user of the bearer token
ActingUserID == (CHOOSE u \in SeedUsers : u.Username = "admin").ID

\* column id is of type UUID: the empty string is not the text of a UUID
\* and a statement that is given it fails
IsUUID(id) == id # EmptyID

\* one row of table recipes as rows.Scan reads it
MakeRow(id, body, createdAt, updatedAt, createdBy, updatedBy) ==
    [ID |-> id, Name |-> body.Name, Ingredients |-> body.Ingredients,
     Instructions |-> body.Instructions, CookingTime |-> body.CookingTime,
     Servings |-> body.Servings, Category |-> body.Category,
     CreatedAt |-> createdAt, UpdatedAt |-> updatedAt,
     CreatedBy |-> createdBy, UpdatedBy |-> updatedBy]

NilRow == MakeRow(EmptyID, BodyOf(NilRecipe), ZeroTime, ZeroTime, 0, 0)

\* PostgresStorage.GetRecipeByID
PgGetRecipeByID(table, id) ==
    IF ~IsUUID(id) THEN [recipe |-> NilRow, err |-> "failed to get recipe"]
    ELSE IF id \notin DOMAIN table
    THEN [recipe |-> NilRow, err |-> "not found"]
    ELSE [recipe |-> table[id], err |-> "nil"]

\* PostgresStorage.createRecipe at database time t: created_at and
\* updated_at take their default CURRENT_TIMESTAMP; the primary key and
\* CHECK (servings > 0) reject the row
PgCreateRecipe(table, recipe, userID, t, uuid) ==
    LET id == IF recipe.ID = EmptyID THEN uuid ELSE recipe.ID
    IN  IF ~IsUUID(id) \/ id \in DOMAIN table \/ recipe.Servings <= 0
        THEN [table |-> table, err |-> "failed to create recipe"]
        ELSE [table |-> [x \in (DOMAIN table) \cup {id} |->
                            IF x = id
                            THEN MakeRow(id, BodyOf(recipe), t, t,
                                         userID, userID)
                            ELSE table[x]],
              err |-> "nil"]

\* PostgresStorage.updateRecipe at database time t: UPDATE ... RETURNING
\* gives no row when the id is absent
PgUpdateRecipe_NoServings(table, recipe, userID, t) ==
    IF ~IsUUID(recipe.ID) \/ recipe.ID \notin DOMAIN table
       \/ recipe.Servings <= 0
    THEN [table |-> table, err |-> "failed to update recipe"]
    ELSE [table |-> [table EXCEPT ![recipe.ID] =
                        MakeRow(recipe.ID,
                                [BodyOf(recipe) EXCEPT !.Servings =
                                    table[recipe.ID].Servings],
                                @.CreatedAt, t, @.CreatedBy, userID)],
          err |-> "nil"]

PgUpdateRecipe(table, recipe, userID, t) ==
    IF ~IsUUID(recipe.ID) \/ recipe.ID \notin DOMAIN table
       \/ recipe.Servings <= 0
    THEN [table |-> table, err |-> "failed to update recipe"]
    ELSE [table |-> [table EXCEPT ![recipe.ID] =
                        MakeRow(recipe.ID, BodyOf(recipe), @.CreatedAt, t,
                                @.CreatedBy, userID)],
          err |-> "nil"]

\* PostgresStorage.SaveRecipe
PgSaveRecipe(table, recipe, userID, t, uuid) ==
    LET existing == PgGetRecipeByID(table, recipe.ID)
    IN  IF existing.err # "nil" /\ existing.err # "not found"
        THEN [table |-> table, err |-> existing.err]
        ELSE IF existing.err = "nil"
        THEN PgUpdateRecipe(table, recipe, userID, t)
        ELSE PgCreateRecipe(table, recipe, userID, t, uuid)

\* PostgresStorage.DeleteRecipe
PgDeleteRecipe(table, id) ==
    IF ~IsUUID(id) THEN [table |-> table, err |-> "failed to delete recipe"]
    ELSE IF id \notin DOMAIN table
    THEN [table |-> table, err |-> "not found"]
    ELSE [table |-> [x \in (DOMAIN table) \ {id} |-> table[x]],
          err |-> "nil"]

\* lower(): the letters of a string in lower case
UpperCase == <<"A", "B", "C", "D", "E", "F", "G", "H", "I", "J", "K", "L", "M",
               "N", "O", "P", "Q", "R", "S", "T", "U", "V", "W", "X", "Y", "Z">>

LowerCase == <<"a", "b", "c", "d", "e", "f", "g", "h", "i", "j", "k", "l", "m",
               "n", "o", "p", "q", "r", "s", "t", "u", "v", "w", "x", "y", "z">>

Lower(s) ==
    [i \in 1..Len(s) |->
        IF \E k \in 1..Len(UpperCase) : UpperCase[k] = s[i]
        THEN LowerCase[CHOOSE k \in 1..Len(UpperCase) : UpperCase[k] = s[i]]
        ELSE s[i]]

\* string LIKE pattern: in the pattern % stands for any run of letters,
\* _ for any one letter, and a backslash makes the next letter stand for
\* itself
RECURSIVE LikeMatch(_, _)
LikeMatch(s, pattern) ==
    IF pattern = <<>> THEN s = <<>>
    ELSE IF Head(pattern) = "%"
    THEN \/ LikeMatch(s, Tail(pattern))
         \/ s # <<>> /\ LikeMatch(Tail(s), pattern)
    ELSE IF s = <<>> THEN FALSE
    ELSE IF Head(pattern) = "_"
    THEN LikeMatch(Tail(s), Tail(pattern))
    ELSE IF Head(pattern) = "\\" /\ Len(pattern) >= 2
    THEN Head(s) = pattern[2] /\ LikeMatch(Tail(s), Tail(Tail(pattern)))
    ELSE Head(s) = Head(pattern) /\ LikeMatch(Tail(s), Tail(pattern))

\* string ILIKE pattern: LIKE without regard to case
ILike(s, pattern) == LikeMatch(Lower(s), Lower(pattern))

\* value = ANY(array)
AnyOf(value, array) == \E i \in 1..Len(array) : array[i] = value

\* ORDER BY created_at DESC: every order of the rows in which no row comes
\* before a row created later (rows created at the same time come in any
\* order)
OrderByCreatedAtDesc(rows) ==
    {l \in [1..Cardinality(rows) -> rows] :
        /\ \A i, j \in DOMAIN l : i # j => l[i] # l[j]
        /\ \A i, j \in DOMAIN l : i < j => l[i].CreatedAt >= l[j].CreatedAt}

\* PostgresStorage.GetAllRecipes: the results the query can give
PgGetAllRecipes(table) ==
    OrderByCreatedAtDesc({table[x] : x \in DOMAIN table})

\* PostgresStorage.SearchRecipes: the results the query can give
PgSearchRecipes(table, searchTerm) ==
    LET searchPattern == <<"%">> \o searchTerm \o <<"%">>
    IN  OrderByCreatedAtDesc(
            {table[x] : x \in {y \in DOMAIN table :
                \/ ILike(table[y].Name, searchPattern)
                \/ AnyOf(searchTerm, table[y].Ingredients)}})

\* ------------------------------------------------- the stores when started
\* the local variables of a recipe handler and of the store call it makes
NoRLoc == [op |-> "", id |-> EmptyID, recipe |-> NilRecipe,
           read |-> <<>>, recipes |-> <<>>, list |-> <<>>, err |-> "nil",
           expect |-> [x \in {} |-> NilRecipe]]

NoRResp == [status |-> 0, error |-> ""]

NoCall == [op |-> "", recipe |-> NilRecipe, id |-> EmptyID, term |-> <<>>,
           jsonErr |-> "nil", pgErr |-> "nil",
           jsonList |-> <<>>, pgList |-> <<>>]

\* the stores on a disk whose recipes file is file
StoreOn(file) ==
    /\ recipesFile = file
    /\ jsMutexW = NoHolder
    /\ jsMutexReaders = {}
    /\ recipesTable = [x \in {} |-> NilRow]
    /\ nextUUID = 1
    /\ rpc = [p \in Workers |-> "idle"]
    /\ rloc = [p \in Workers |-> NoRLoc]
    /\ rresp = NoRResp
    /\ committed = [x \in {} |-> NilRecipe]
    /\ lastCall = NoCall

StoreInit == StoreOn(EmptyJSONFile)

\* the token registry when the server has started: NewAuthService on a
\* config file whose token_expiry_hours is one of files
NewAuthService(files) ==
    /\ now = 0
    /\ config \in {LoadConfigExpiry(raw) : raw \in files}
    /\ users = SeedUsers
    /\ activeTokens = [x \in {} |-> NilInfo]
    /\ mutexW = NoHolder
    /\ mutexReaders = {}
    /\ nextToken = 1
    /\ served = 0
    /\ pc = [p \in Workers |-> "idle"]
    /\ req = [p \in Workers |-> NoReq]
    /\ loc = [p \in Workers |-> NoLoc]
    /\ resp = [p \in Workers |-> NoResp]
    /\ rmPending = [t \in TokenIds |-> 0]
    /\ rmActive = [token |-> EmptyToken, pc |-> "none"]
    /\ tickerC = FALSE
    /\ cleaner = [pc |-> "idle", count |-> 0]
    /\ issuedLog = [x \in {} |-> NilInfo]
    /\ handedOut = {}
    /\ revoked = {}
    /\ revokeReturned = {}

AuthInit == NewAuthService(ConfigFileExpiry)

Init == AuthInit /\ StoreInit


\* ------------------------------------------------------------ bookkeeping
\* net/http starts a goroutine per request; the goroutines are
\* interchangeable, so a request is given to the first free worker
FirstFree(p) == pc[p] = "idle" /\ (p = "w2" => pc["w1"] # "idle")

Done(p, r) ==
    /\ pc' = [pc EXCEPT ![p] = "done"]
    /\ resp' = [resp EXCEPT ![p] = r]

\* the worker's goroutine ends; net/http serves the next request
Finish(p) ==
    /\ pc[p] = "done"
    /\ pc' = [pc EXCEPT ![p] = "idle"]
    /\ req' = [req EXCEPT ![p] = NoReq]
    /\ loc' = [loc EXCEPT ![p] = NoLoc]
    /\ resp' = [resp EXCEPT ![p] = NoResp]
    /\ UNCHANGED <<now, config, users, served, activeTokens, mutexW, mutexReaders,
                   nextToken, rmPending, rmActive, tickerC, cleaner,
                   issuedLog, handedOut, revoked, revokeReturned>>
    /\ UNCHANGED storeVars

\* time passes; the ticker of main sends on its channel once per hour
\* (a send on a full channel is dropped)
Tick ==
    /\ now < MaxTime
    /\ now' = now + 1
    /\ tickerC' = TRUE
    /\ UNCHANGED <<config, users, served, activeTokens, mutexW, mutexReaders,
                   nextToken, pc, req, loc, resp, rmPending, rmActive,
                   cleaner, issuedLog, handedOut, revoked, revokeReturned>>
    /\ UNCHANGED storeVars

\* ------------------------------------------------------------ HandleLogin
\* the login requests a client can send: one per branch of the handler;
\* with a body that parses, admin's right password, a wrong password (the
\* one of chef), and a username that does not exist
LoginRequests ==
    {[method |-> "OPTIONS", bodyOK |-> TRUE, username |-> "",
      password |-> ""],
     [method |-> "GET", bodyOK |-> TRUE, username |-> "", password |-> ""],
     [method |-> "POST", bodyOK |-> FALSE, username |-> "",
      password |-> ""],
     [method |-> "POST", bodyOK |-> TRUE, username |-> "",
      password |-> "admin123"],
     [method |-> "POST", bodyOK |-> TRUE, username |-> "admin",
      password |-> ""]}
    \cup {[method |-> "POST", bodyOK |-> TRUE, username |-> c[1],
           password |-> c[2]] :
             c \in {<<"admin", "admin123">>, <<"admin", "cooking456">>,
                    <<"ghost", "admin123">>}}

\* HandleLogin up to the Lock of GenerateToken: the method and body checks,
\* ValidateCredentials, rand.Read and as.mutex.Lock()
HandleLogin(p) ==
    /\ FirstFree(p)
    /\ served < MaxRequests
    /\ served' = served + 1
    /\ \E r \in LoginRequests, randOK \in BOOLEAN :
        LET s == StorageValidateCredentials(users, r.username, r.password)
            v == ValidateCredentials(users, r.username, r.password)
            reject == \/ r.method # "POST"
                      \/ ~r.bodyOK
                      \/ r.username = ""
                      \/ r.password = ""
                      \/ ~v.valid
        IN  /\ reject => randOK
            /\ req' = [req EXCEPT ![p] =
                          [NoReq EXCEPT !.op = "login",
                                        !.method = r.method,
                                        !.username = r.username,
                                        !.password = r.password]]
            /\ IF r.method = "OPTIONS"
               THEN /\ Done(p, sendOK(EmptyToken))
                    /\ UNCHANGED <<loc, nextToken, mutexW, mutexReaders>>
               ELSE IF r.method # "POST"
               THEN /\ Done(p, sendLoginError("Method not allowed",
                                              StatusMethodNotAllowed))
                    /\ UNCHANGED <<loc, nextToken, mutexW, mutexReaders>>
               ELSE IF ~r.bodyOK
               THEN /\ Done(p, sendLoginError("Invalid JSON format",
                                              StatusBadRequest))
                    /\ UNCHANGED <<loc, nextToken, mutexW, mutexReaders>>
               ELSE IF r.username = "" \/ r.password = ""
               THEN /\ Done(p, sendLoginError(
                                  "Username and password are required",
                                  StatusBadRequest))
                    /\ UNCHANGED <<loc, nextToken, mutexW, mutexReaders>>
               ELSE IF ~v.valid
               THEN /\ Done(p, sendLoginError("Invalid username or password",
                                              StatusUnauthorized))
                    /\ loc' = [loc EXCEPT ![p].err = s.err]
                    /\ UNCHANGED <<nextToken, mutexW, mutexReaders>>
               ELSE IF ~randOK
               THEN /\ Done(p, sendLoginError("Failed to generate token",
                                              StatusInternalServerError))
                    /\ loc' = [loc EXCEPT ![p].user = v.user]
                    /\ UNCHANGED <<nextToken, mutexW, mutexReaders>>
               ELSE /\ LockAcquire(p)
                    /\ pc' = [pc EXCEPT ![p] = "gt_body"]
                    /\ loc' = [loc EXCEPT ![p].user = v.user,
                                          ![p].token = nextToken]
                    /\ nextToken' = nextToken + 1
                    /\ UNCHANGED resp
    /\ UNCHANGED <<now, config, users, activeTokens,
                   rmPending, rmActive, tickerC, cleaner,
                   issuedLog, handedOut, revoked, revokeReturned>>
    /\ UNCHANGED storeVars

\* ---------------------------------------------------------- GenerateToken
GenerateTokenInsert(p) ==
    /\ pc[p] = "gt_body"
    /\ LockEntered(p)
    /\ activeTokens' = MapPut(activeTokens, loc[p].token,
                              NewTokenInfo(loc[p].user, now))
    /\ issuedLog' = MapPut(issuedLog, loc[p].token,
                           [Username |-> loc[p].user.Username,
                            UserID |-> loc[p].user.ID,
                            CreatedAt |-> now,
                            ExpiresAt |-> now + config])
    /\ pc' = [pc EXCEPT ![p] = "gt_unlock"]
    /\ UNCHANGED <<now, config, users, served, mutexW, mutexReaders, nextToken, req,
                   loc, resp, rmPending, rmActive, tickerC, cleaner,
                   handedOut, revoked, revokeReturned>>
    /\ UNCHANGED storeVars

\* the deferred Unlock, and HandleLogin's success response
GenerateTokenUnlock(p) ==
    /\ pc[p] = "gt_unlock"
    /\ Unlock(p)
    /\ Done(p, sendOK(loc[p].token))
    /\ handedOut' = handedOut \cup {loc[p].token}
    /\ UNCHANGED <<now, config, users, served, activeTokens, nextToken, req, loc,
                   rmPending, rmActive, tickerC, cleaner,
                   issuedLog, revoked, revokeReturned>>
    /\ UNCHANGED storeVars

\* ------------------------------------------- HandleLogout, AuthMiddleware
\* the history a ValidateToken call starts with
AtCall(token) ==
    [NoLoc EXCEPT !.token = token,
                  !.knownAtCall = token \in handedOut,
                  !.revokedAtCall = token \in revoked,
                  !.revokeDoneAtCall = token \in revokeReturned]

\* the requests a client can send to a route that takes a token
TokenRequests ==
    {[method |-> "OPTIONS", header |-> NoHeader],
     [method |-> "GET", header |-> NoHeader]}
    \cup {[method |-> "POST", header |-> h] : h \in Headers}

\* HandleLogout up to the RLock of ValidateToken
HandleLogout(p) ==
    /\ FirstFree(p)
    /\ served < MaxRequests
    /\ served' = served + 1
    /\ \E r \in TokenRequests :
        LET token == extractTokenFromHeader(r.header)
        IN  /\ req' = [req EXCEPT ![p] =
                          [NoReq EXCEPT !.op = "logout",
                                        !.method = r.method,
                                        !.header = r.header]]
            /\ IF r.method = "OPTIONS"
               THEN /\ Done(p, sendOK(EmptyToken))
                    /\ UNCHANGED <<loc, mutexW, mutexReaders>>
               ELSE IF r.method # "POST"
               THEN /\ Done(p, sendLoginError("Method not allowed",
                                              StatusMethodNotAllowed))
                    /\ UNCHANGED <<loc, mutexW, mutexReaders>>
               ELSE IF token = EmptyToken
               THEN /\ Done(p, sendLoginError("Authorization token required",
                                              StatusUnauthorized))
                    /\ UNCHANGED <<loc, mutexW, mutexReaders>>
               ELSE /\ RLock(p)
                    /\ pc' = [pc EXCEPT ![p] = "vt_body"]
                    /\ loc' = [loc EXCEPT ![p] = AtCall(token)]
                    /\ UNCHANGED resp
    /\ UNCHANGED <<now, config, users, activeTokens,
                   nextToken, rmPending, rmActive, tickerC, cleaner,
                   issuedLog, handedOut, revoked, revokeReturned>>
    /\ UNCHANGED storeVars

\* AuthMiddleware up to the RLock of ValidateToken
AuthMiddleware(p) ==
    /\ FirstFree(p)
    /\ served < MaxRequests
    /\ served' = served + 1
    /\ \E r \in TokenRequests :
        LET token == extractTokenFromHeader(r.header)
        IN  /\ r.method # "GET"
            /\ req' = [req EXCEPT ![p] =
                          [NoReq EXCEPT !.op = "protected",
                                        !.method = r.method,
                                        !.header = r.header]]
            /\ IF r.method = "OPTIONS"
               THEN /\ Done(p, sendOK(EmptyToken))
                    /\ UNCHANGED <<loc, mutexW, mutexReaders>>
               ELSE IF token = EmptyToken
               THEN /\ Done(p, sendLoginError("Authorization token required",
                                              StatusUnauthorized))
                    /\ UNCHANGED <<loc, mutexW, mutexReaders>>
               ELSE /\ RLock(p)
                    /\ pc' = [pc EXCEPT ![p] = "vt_body"]
                    /\ loc' = [loc EXCEPT ![p] = AtCall(token)]
                    /\ UNCHANGED resp
    /\ UNCHANGED <<now, config, users, activeTokens,
                   nextToken, rmPending, rmActive, tickerC, cleaner,
                   issuedLog, handedOut, revoked, revokeReturned>>
    /\ UNCHANGED storeVars

\* ---------------------------------------------------------- ValidateToken
\* the map lookup and the expiry check, under the read lock
ValidateTokenBody_DeleteInline(p) ==
    /\ pc[p] = "vt_body"
    /\ LET token == loc[p].token
       IN  IF token \notin DOMAIN activeTokens
           THEN /\ loc' = [loc EXCEPT ![p].info = NilInfo, ![p].ok = FALSE,
                                      ![p].vnow = now]
                /\ UNCHANGED activeTokens
           ELSE IF IsExpired(activeTokens[token], now)
           THEN /\ loc' = [loc EXCEPT ![p].info = NilInfo, ![p].ok = FALSE,
                                      ![p].vnow = now]
                /\ activeTokens' = MapDelete(activeTokens, token)
           ELSE /\ loc' = [loc EXCEPT ![p].info = activeTokens[token],
                                      ![p].ok = TRUE, ![p].vnow = now]
                /\ UNCHANGED activeTokens
    /\ pc' = [pc EXCEPT ![p] = "vt_runlock"]
    /\ UNCHANGED <<now, config, users, served, rmPending, mutexW,
                   mutexReaders, nextToken, req, resp, rmActive, tickerC,
                   cleaner, issuedLog, handedOut, revoked, revokeReturned>>
    /\ UNCHANGED storeVars

ValidateTokenBody(p) ==
    /\ pc[p] = "vt_body"
    /\ LET token == loc[p].token
       IN  IF token \notin DOMAIN activeTokens
           THEN /\ loc' = [loc EXCEPT ![p].info = NilInfo, ![p].ok = FALSE,
                                      ![p].vnow = now]
                /\ UNCHANGED rmPending
           ELSE IF IsExpired(activeTokens[token], now)
           THEN /\ loc' = [loc EXCEPT ![p].info = NilInfo, ![p].ok = FALSE,
                                      ![p].vnow = now]
                /\ rmPending' = [rmPending EXCEPT ![token] = @ + 1]
           ELSE /\ loc' = [loc EXCEPT ![p].info = activeTokens[token],
                                      ![p].ok = TRUE, ![p].vnow = now]
                /\ UNCHANGED rmPending
    /\ pc' = [pc EXCEPT ![p] = "vt_runlock"]
    /\ UNCHANGED <<now, config, users, served, activeTokens, mutexW, mutexReaders,
                   nextToken, req, resp, rmActive, tickerC, cleaner,
                   issuedLog, handedOut, revoked, revokeReturned>>
    /\ UNCHANGED storeVars

\* the deferred RUnlock, and what the calling handler does with the result:
\* 401, or HandleLogout goes on to InvalidateToken, or AuthMiddleware calls
\* next(w, r) and the protected recipe handler answers
ValidateTokenRUnlock_IgnoreResult(p) ==
    /\ pc[p] = "vt_runlock"
    /\ RUnlock(p)
    /\ IF req[p].op = "logout"
       THEN IF ~loc[p].ok
            THEN Done(p, sendLoginError("Invalid or expired token",
                                        StatusUnauthorized))
            ELSE /\ pc' = [pc EXCEPT ![p] = "it_lock"]
                 /\ UNCHANGED resp
       ELSE Done(p, [status |-> StatusOK, error |-> "",
                     token |-> EmptyToken, nextCalled |-> TRUE])
    /\ UNCHANGED <<now, config, users, served, activeTokens, nextToken, req,
                   loc, rmPending, rmActive, tickerC, cleaner,
                   issuedLog, handedOut, revoked, revokeReturned>>
    /\ UNCHANGED storeVars

ValidateTokenRUnlock_HoldRLock(p) ==
    /\ pc[p] = "vt_runlock"
    /\ IF ~loc[p].ok
       THEN /\ RUnlock(p)
            /\ Done(p, sendLoginError("Invalid or expired token",
                                       StatusUnauthorized))
       ELSE IF req[p].op = "logout"
       THEN /\ pc' = [pc EXCEPT ![p] = "it_lock"]
            /\ UNCHANGED <<resp, mutexW, mutexReaders>>
       ELSE /\ RUnlock(p)
            /\ Done(p, [status |-> StatusOK, error |-> "",
                        token |-> EmptyToken, nextCalled |-> TRUE])
    /\ UNCHANGED <<now, config, users, served, activeTokens, nextToken, req, loc,
                   rmPending, rmActive, tickerC, cleaner,
                   issuedLog, handedOut, revoked, revokeReturned>>
    /\ UNCHANGED storeVars

ValidateTokenRUnlock(p) ==
    /\ pc[p] = "vt_runlock"
    /\ RUnlock(p)
    /\ IF ~loc[p].ok
       THEN Done(p, sendLoginError("Invalid or expired token",
                                   StatusUnauthorized))
       ELSE IF req[p].op = "logout"
       THEN /\ pc' = [pc EXCEPT ![p] = "it_lock"]
            /\ UNCHANGED resp
       ELSE Done(p, [status |-> StatusOK, error |-> "",
                     token |-> EmptyToken, nextCalled |-> TRUE])
    /\ UNCHANGED <<now, config, users, served, activeTokens, nextToken, req, loc,
                   rmPending, rmActive, tickerC, cleaner,
                   issuedLog, handedOut, revoked, revokeReturned>>
    /\ UNCHANGED storeVars

\* -------------------------------------------------------- InvalidateToken
InvalidateTokenLock(p) ==
    /\ pc[p] = "it_lock"
    /\ LockAcquire(p)
    /\ pc' = [pc EXCEPT ![p] = "it_body"]
    /\ UNCHANGED <<now, config, users, served, activeTokens, nextToken, req, loc,
                   resp, rmPending, rmActive, tickerC, cleaner,
                   issuedLog, handedOut, revoked, revokeReturned>>
    /\ UNCHANGED storeVars

InvalidateTokenBody_NoDelete(p) ==
    /\ pc[p] = "it_body"
    /\ LockEntered(p)
    /\ loc' = [loc EXCEPT ![p].ret = loc[p].token \in DOMAIN activeTokens]
    /\ pc' = [pc EXCEPT ![p] = "it_unlock"]
    /\ UNCHANGED <<now, config, users, served, activeTokens, mutexW,
                   mutexReaders, nextToken, req, resp, rmPending, rmActive,
                   tickerC, cleaner, issuedLog, handedOut, revoked,
                   revokeReturned>>
    /\ UNCHANGED storeVars

InvalidateTokenBody_AlwaysTrue(p) ==
    /\ pc[p] = "it_body"
    /\ LockEntered(p)
    /\ activeTokens' = MapDelete(activeTokens, loc[p].token)
    /\ loc' = [loc EXCEPT ![p].ret = TRUE]
    /\ revoked' = revoked \cup {loc[p].token}
    /\ pc' = [pc EXCEPT ![p] = "it_unlock"]
    /\ UNCHANGED <<now, config, users, served, mutexW, mutexReaders,
                   nextToken, req, resp, rmPending, rmActive, tickerC,
                   cleaner, issuedLog, handedOut, revokeReturned>>
    /\ UNCHANGED storeVars

InvalidateTokenBody(p) ==
    /\ pc[p] = "it_body"
    /\ LockEntered(p)
    /\ LET token == loc[p].token
       IN  IF token \in DOMAIN activeTokens
           THEN /\ activeTokens' = MapDelete(activeTokens, token)
                /\ loc' = [loc EXCEPT ![p].ret = TRUE]
                /\ revoked' = revoked \cup {token}
           ELSE /\ loc' = [loc EXCEPT ![p].ret = FALSE]
                /\ UNCHANGED <<activeTokens, revoked>>
    /\ pc' = [pc EXCEPT ![p] = "it_unlock"]
    /\ UNCHANGED <<now, config, users, served, mutexW, mutexReaders, nextToken, req,
                   resp, rmPending, rmActive, tickerC, cleaner,
                   issuedLog, handedOut, revokeReturned>>
    /\ UNCHANGED storeVars

\* the deferred Unlock, and HandleLogout's response
InvalidateTokenUnlock(p) ==
    /\ pc[p] = "it_unlock"
    /\ Unlock(p)
    /\ revokeReturned' = revokeReturned \cup {loc[p].token}
    /\ IF loc[p].ret
       THEN Done(p, sendOK(EmptyToken))
       ELSE Done(p, sendLoginError("Failed to logout",
                                   StatusInternalServerError))
    /\ UNCHANGED <<now, config, users, served, activeTokens, nextToken, req, loc,
                   rmPending, rmActive, tickerC, cleaner,
                   issuedLog, handedOut, revoked>>
    /\ UNCHANGED storeVars

\* ------------------------------------------------------------ removeToken
\* one of the goroutines ValidateToken started calls Lock
RemoveTokenLock(t) ==
    /\ rmPending[t] > 0
    /\ rmActive.pc = "none"
    /\ LockAcquire(Remover)
    /\ rmPending' = [rmPending EXCEPT ![t] = @ - 1]
    /\ rmActive' = [token |-> t, pc |-> "body"]
    /\ UNCHANGED <<now, config, users, served, activeTokens, nextToken, pc, req,
                   loc, resp, tickerC, cleaner,
                   issuedLog, handedOut, revoked, revokeReturned>>
    /\ UNCHANGED storeVars

RemoveTokenBody ==
    /\ rmActive.pc = "body"
    /\ LockEntered(Remover)
    /\ activeTokens' = MapDelete(activeTokens, rmActive.token)
    /\ rmActive' = [rmActive EXCEPT !.pc = "unlock"]
    /\ UNCHANGED <<now, config, users, served, mutexW, mutexReaders, nextToken, pc,
                   req, loc, resp, rmPending, tickerC, cleaner,
                   issuedLog, handedOut, revoked, revokeReturned>>
    /\ UNCHANGED storeVars

RemoveTokenUnlock ==
    /\ rmActive.pc = "unlock"
    /\ Unlock(Remover)
    /\ rmActive' = [token |-> EmptyToken, pc |-> "none"]
    /\ UNCHANGED <<now, config, users, served, activeTokens, nextToken, pc, req,
                   loc, resp, rmPending, tickerC, cleaner,
                   issuedLog, handedOut, revoked, revokeReturned>>
    /\ UNCHANGED storeVars

\* ------------------------------------------- the cleanup goroutine of main
\* case <-ticker.C, and the Lock of CleanupExpiredTokens
CleanerWake ==
    /\ cleaner.pc = "idle"
    /\ tickerC
    /\ tickerC' = FALSE
    /\ LockAcquire(Cleaner)
    /\ cleaner' = [cleaner EXCEPT !.pc = "cl_body"]
    /\ UNCHANGED <<now, config, users, served, activeTokens,
                   nextToken, pc, req, loc, resp, rmPending, rmActive,
                   issuedLog, handedOut, revoked, revokeReturned>>
    /\ UNCHANGED storeVars

\* CleanupExpiredTokens: now := time.Now() and the loop over the map
CleanupBody ==
    /\ cleaner.pc = "cl_body"
    /\ LockEntered(Cleaner)
    /\ activeTokens' = SweepExpired(activeTokens, now)
    /\ cleaner' = [cleaner EXCEPT !.pc = "cl_unlock"]
    /\ UNCHANGED <<now, config, users, served, mutexW, mutexReaders, nextToken, pc,
                   req, loc, resp, rmPending, rmActive, tickerC,
                   issuedLog, handedOut, revoked, revokeReturned>>
    /\ UNCHANGED storeVars

CleanupUnlock ==
    /\ cleaner.pc = "cl_unlock"
    /\ Unlock(Cleaner)
    /\ cleaner' = [cleaner EXCEPT !.pc = "ac_rlock"]
    /\ UNCHANGED <<now, config, users, served, activeTokens, nextToken, pc, req,
                   loc, resp, rmPending, rmActive, tickerC,
                   issuedLog, handedOut, revoked, revokeReturned>>
    /\ UNCHANGED storeVars

\* GetActiveTokensCount, called for the log line after the sweep
ActiveCountRLock ==
    /\ cleaner.pc = "ac_rlock"
    /\ RLock(Cleaner)
    /\ cleaner' = [cleaner EXCEPT !.pc = "ac_body"]
    /\ UNCHANGED <<now, config, users, served, activeTokens, nextToken, pc, req,
                   loc, resp, rmPending, rmActive, tickerC,
                   issuedLog, handedOut, revoked, revokeReturned>>
    /\ UNCHANGED storeVars

ActiveCountRead ==
    /\ cleaner.pc = "ac_body"
    /\ cleaner' = [cleaner EXCEPT !.pc = "ac_runlock",
                                  !.count = Cardinality(DOMAIN activeTokens)]
    /\ UNCHANGED <<now, config, users, served, activeTokens, mutexW, mutexReaders,
                   nextToken, pc, req, loc, resp, rmPending, rmActive,
                   tickerC, issuedLog, handedOut, revoked, revokeReturned>>
    /\ UNCHANGED storeVars

ActiveCountRUnlock ==
    /\ cleaner.pc = "ac_runlock"
    /\ RUnlock(Cleaner)
    /\ cleaner' = [cleaner EXCEPT !.pc = "idle", !.count = 0]
    /\ UNCHANGED <<now, config, users, served, activeTokens, nextToken, pc, req,
                   loc, resp, rmPending, rmActive, tickerC,
                   issuedLog, handedOut, revoked, revokeReturned>>
    /\ UNCHANGED storeVars

Next ==
    \/ Tick
    \/ \E p \in Workers : HandleLogin(p)
    \/ \E p \in Workers : GenerateTokenInsert(p)
    \/ \E p \in Workers : GenerateTokenUnlock(p)
    \/ \E p \in Workers : HandleLogout(p)
    \/ \E p \in Workers : AuthMiddleware(p)
    \/ \E p \in Workers : ValidateTokenBody(p)
    \/ \E p \in Workers : ValidateTokenRUnlock(p)
    \/ \E p \in Workers : InvalidateTokenLock(p)
    \/ \E p \in Workers : InvalidateTokenBody(p)
    \/ \E p \in Workers : InvalidateTokenUnlock(p)
    \/ \E p \in Workers : Finish(p)
    \/ \E t \in TokenIds : RemoveTokenLock(t)
    \/ RemoveTokenBody
    \/ RemoveTokenUnlock
    \/ CleanerWake
    \/ CleanupBody
    \/ CleanupUnlock
    \/ ActiveCountRLock
    \/ ActiveCountRead
    \/ ActiveCountRUnlock

Spec == Init /\ [][Next]_vars

\* ------------------------------------------------------------- scheduling
\* Logins and requests to protected routes, with no token ever revoked:
\* HandleLogout is left to Spec.  The Go scheduler runs every goroutine
\* that can run, time passes, and a goroutine waiting in Lock or RLock gets
\* the mutex once it stays free (sync.Mutex hands the lock to a waiter that
\* has waited long).  Requests arrive or not as clients please.
NextLive ==
    \/ Tick
    \/ \E p \in Workers : HandleLogin(p)
    \/ \E p \in Workers : GenerateTokenInsert(p)
    \/ \E p \in Workers : GenerateTokenUnlock(p)
    \/ \E p \in Workers : AuthMiddleware(p)
    \/ \E p \in Workers : ValidateTokenBody(p)
    \/ \E p \in Workers : ValidateTokenRUnlock(p)
    \/ \E p \in Workers : Finish(p)
    \/ \E t \in TokenIds : RemoveTokenLock(t)
    \/ RemoveTokenBody
    \/ RemoveTokenUnlock
    \/ CleanerWake
    \/ CleanupBody
    \/ CleanupUnlock
    \/ ActiveCountRLock
    \/ ActiveCountRead
    \/ ActiveCountRUnlock

Fairness ==
    /\ WF_vars(Tick)
    /\ \A p \in Workers :
        /\ WF_vars(GenerateTokenInsert(p))
        /\ WF_vars(GenerateTokenUnlock(p))
        /\ WF_vars(ValidateTokenBody(p))
        /\ WF_vars(ValidateTokenRUnlock(p))
        /\ WF_vars(Finish(p))
    /\ \A t \in TokenIds : WF_vars(RemoveTokenLock(t))
    /\ WF_vars(RemoveTokenBody)
    /\ WF_vars(RemoveTokenUnlock)
    /\ WF_vars(CleanerWake)
    /\ WF_vars(CleanupBody)
    /\ WF_vars(CleanupUnlock)
    /\ WF_vars(ActiveCountRLock)
    /\ WF_vars(ActiveCountRead)
    /\ WF_vars(ActiveCountRUnlock)

SpecLive == Init /\ [][NextLive]_vars /\ Fairness

\* --------------------------------------------------- the users table changes
\* The user storage has no HTTP route: an administrator deactivates a user
\* or sets a new password while the server runs.  The ids named are the
\* one of admin and one no user has; the new password is the one the login
\* requests try as a wrong one.
AdminUserIDs == {1, 2}

DeleteUser ==
    /\ \E id \in AdminUserIDs :
        users' = StorageDeleteUser(users, id).table
    /\ UNCHANGED <<now, config, served, activeTokens, mutexW, mutexReaders,
                   nextToken, pc, req, loc, resp, rmPending, rmActive,
                   tickerC, cleaner, issuedLog, handedOut, revoked,
                   revokeReturned>>
    /\ UNCHANGED storeVars

UpdatePassword ==
    /\ \E id \in AdminUserIDs :
        users' = StorageUpdatePassword(users, id, "cooking456").table
    /\ UNCHANGED <<now, config, served, activeTokens, mutexW, mutexReaders,
                   nextToken, pc, req, loc, resp, rmPending, rmActive,
                   tickerC, cleaner, issuedLog, handedOut, revoked,
                   revokeReturned>>
    /\ UNCHANGED storeVars

\* logins and requests to protected routes are served while the users
\* table changes; HandleLogout and the hourly sweep, which neither read
\* nor write the users table, are left to Spec
NextUsers ==
    \/ Tick
    \/ \E p \in Workers : HandleLogin(p)
    \/ \E p \in Workers : GenerateTokenInsert(p)
    \/ \E p \in Workers : GenerateTokenUnlock(p)
    \/ \E p \in Workers : AuthMiddleware(p)
    \/ \E p \in Workers : ValidateTokenBody(p)
    \/ \E p \in Workers : ValidateTokenRUnlock(p)
    \/ \E p \in Workers : Finish(p)
    \/ \E t \in TokenIds : RemoveTokenLock(t)
    \/ RemoveTokenBody
    \/ RemoveTokenUnlock
    \/ DeleteUser
    \/ UpdatePassword

SpecUsers == Init /\ [][NextUsers]_vars

\* ------------------------------------------------ both stores, call by call
\* The same calls are made on a JSONStorage and on a PostgresStorage, one
\* call at a time, on a disk and a database that do not fail.  SaveRecipe
\* is given a recipe with no id or with an id of the client, stamped by the
\* caller with the time of the call (as RecipeHandler.createRecipe stamps
\* it) or not stamped at all.  createRecipe is never reached with an empty
\* id (GetRecipeByID fails first), so uuid.New() is not called.
PairSave ==
    /\ served < MaxRequests
    /\ served' = served + 1
    /\ \E id \in {EmptyID} \cup ClientUUIDs, body \in Bodies,
          stamp \in {ZeroTime, now} :
        LET recipe == MakeRecipe(id, body, stamp, stamp)
            j == JSONSaveRecipe(recipesFile, recipe, "ok")
            g == PgSaveRecipe(recipesTable, recipe, ActingUserID, now,
                              nextUUID)
        IN  /\ recipesFile' = j.file
            /\ recipesTable' = g.table
            /\ lastCall' = [NoCall EXCEPT !.op = "save", !.recipe = recipe,
                                          !.id = id, !.jsonErr = j.err,
                                          !.pgErr = g.err]
    /\ UNCHANGED <<now, authVars, jsMutexW, jsMutexReaders, nextUUID,
                   rpc, rloc, rresp, committed>>

\* DeleteRecipe is called with the id of the URL, which is not empty
\* (HandleRecipeByID answers 400 to an empty one)
PairDelete ==
    /\ served < MaxRequests
    /\ served' = served + 1
    /\ \E id \in ClientUUIDs :
        LET j == JSONDeleteRecipe(recipesFile, id, "ok")
            g == PgDeleteRecipe(recipesTable, id)
        IN  /\ recipesFile' = j.file
            /\ recipesTable' = g.table
            /\ lastCall' = [NoCall EXCEPT !.op = "delete", !.id = id,
                                          !.jsonErr = j.err, !.pgErr = g.err]
    /\ UNCHANGED <<now, authVars, jsMutexW, jsMutexReaders, nextUUID,
                   rpc, rloc, rresp, committed>>

\* GetAllRecipes on both stores
PairList ==
    /\ \E l \in PgGetAllRecipes(recipesTable) :
        lastCall' = [NoCall EXCEPT
                        !.op = "list",
                        !.jsonErr = JSONGetAllRecipes(recipesFile).err,
                        !.jsonList = JSONGetAllRecipes(recipesFile).recipes,
                        !.pgList = l]
    /\ UNCHANGED <<now, served, authVars, recipesFile, jsMutexW,
                   jsMutexReaders, recipesTable, nextUUID, rpc, rloc, rresp,
                   committed>>

NextPair ==
    \/ Tick
    \/ PairSave
    \/ PairDelete
    \/ PairList

SpecPair == Init /\ [][NextPair]_vars

\* ------------------------------------------- searching the relational store
\* the terms a client searches for: nothing, parts of names in either
\* case, an ingredient and a part of one, and the two signs LIKE reads as
\* wildcards
SearchTerms ==
    {<<>>, <<"o", "u">>, <<"C", "A">>, <<"s", "a", "l", "t">>,
     <<"s", "a">>, <<"_">>, <<"%">>}

\* SearchRecipes on the relational store
SearchRecipes ==
    /\ \E term \in SearchTerms :
        \E l \in PgSearchRecipes(recipesTable, term) :
            lastCall' = [NoCall EXCEPT !.op = "search", !.term = term,
                                      !.pgList = l]
    /\ UNCHANGED <<now, served, authVars, recipesFile, jsMutexW,
                   jsMutexReaders, recipesTable, nextUUID, rpc, rloc, rresp,
                   committed>>

\* the table is filled by SaveRecipe calls and then searched
NextSearch ==
    \/ Tick
    \/ PairSave
    \/ SearchRecipes

SpecSearch == Init /\ [][NextSearch]_vars

\* --------------------------------------------- a menu of chocolate recipes
\* a cake that has the word in its name, and cookies that have it in an
\* ingredient only
ChocolateCake ==
    [Name |-> <<"C", "h", "o", "c", "o", "l", "a", "t", "e", " ",
                "C", "a", "k", "e">>,
     Ingredients |-> << <<"c", "o", "c", "o", "a">>, <<"e", "g", "g">> >>,
     Instructions |-> "bake", CookingTime |-> "1 hour",
     Servings |-> 8, Category |-> "dessert"]

ChocolateChips ==
    <<"c", "h", "o", "c", "o", "l", "a", "t", "e", " ",
      "c", "h", "i", "p", "s">>

Cookies ==
    [Name |-> <<"C", "o", "o", "k", "i", "e", "s">>,
     Ingredients |-> << <<"f", "l", "o", "u", "r">>, ChocolateChips >>,
     Instructions |-> "bake", CookingTime |-> "20 minutes",
     Servings |-> 12, Category |-> "dessert"]

Choc == <<"c", "h", "o", "c">>

XyzNone == <<"x", "y", "z", "-", "n", "o", "n", "e">>

\* the terms searched for on the menu: part of a name and of an
\* ingredient, a whole ingredient, a term found nowhere, and a sign LIKE
\* reads as a wildcard
MenuTerms == {Choc, ChocolateChips, XyzNone, <<"_">>}

\* SaveRecipe of the cake or the cookies on the relational store
MenuSave ==
    /\ served < MaxRequests
    /\ served' = served + 1
    /\ \E id \in ClientUUIDs, body \in {ChocolateCake, Cookies} :
        LET recipe == MakeRecipe(id, body, now, now)
            r == PgSaveRecipe(recipesTable, recipe, ActingUserID, now,
                              nextUUID)
        IN  /\ recipesTable' = r.table
            /\ lastCall' = [NoCall EXCEPT !.op = "save", !.recipe = recipe,
                                          !.pgErr = r.err]
    /\ UNCHANGED <<now, authVars, recipesFile, jsMutexW, jsMutexReaders,
                   nextUUID, rpc, rloc, rresp, committed>>

\* SearchRecipes on the menu
MenuSearch ==
    /\ \E term \in MenuTerms :
        \E l \in PgSearchRecipes(recipesTable, term) :
            lastCall' = [NoCall EXCEPT !.op = "search", !.term = term,
                                      !.pgList = l]
    /\ UNCHANGED <<now, served, authVars, recipesFile, jsMutexW,
                   jsMutexReaders, recipesTable, nextUUID, rpc, rloc, rresp,
                   committed>>

NextMenu ==
    \/ Tick
    \/ MenuSave
    \/ MenuSearch

SpecMenu == Init /\ [][NextMenu]_vars

\* ------------------------------------------------------------ properties
\* where the goroutines are with respect to AuthService.mutex
WritersInside ==
    {p \in Workers : pc[p] \in {"gt_unlock", "it_unlock"}}
    \cup (IF cleaner.pc = "cl_unlock" THEN {Cleaner} ELSE {})
    \cup (IF rmActive.pc = "unlock" THEN {Remover} ELSE {})

ReadersInside ==
    {p \in Workers : pc[p] \in {"vt_body", "vt_runlock"}}
    \cup (IF cleaner.pc \in {"ac_body", "ac_runlock"} THEN {Cleaner} ELSE {})

\* a ValidateToken call of worker p has computed its result
Validated(p) == pc[p] = "vt_runlock"

\* C1: under every interleaving, ValidateToken never returns ok = true for a
\* token whose expiry time is earlier than the time the call read.
C1_ExpiredNeverValidates ==
    \A p \in Workers :
        loc[p].ok =>
            /\ loc[p].token \in DOMAIN issuedLog
            /\ ~(issuedLog[loc[p].token].ExpiresAt < loc[p].vnow)

C1_Witness ==
    \E p \in Workers :
        /\ Validated(p)
        /\ ~loc[p].ok
        /\ loc[p].token \in DOMAIN issuedLog
        /\ loc[p].token \notin revoked
        /\ issuedLog[loc[p].token].ExpiresAt < loc[p].vnow

\* C2 as stated: a token issued at c with TTL T and never revoked validates
\* at every instant strictly before c+T and fails at every instant at or
\* after c+T, the instant c+T included.
C2_FailsAtExpiryInstant ==
    \A p \in Workers :
        (Validated(p) /\ loc[p].knownAtCall /\ loc[p].token \notin revoked)
            => (loc[p].ok <=>
                   loc[p].vnow < issuedLog[loc[p].token].CreatedAt
                                    + config * Hour)

\* C2 amended: such a token validates at every instant up to and including
\* c+T and fails at every instant strictly after c+T.
C2_ValidThroughExpiryInstant ==
    \A p \in Workers :
        (Validated(p) /\ loc[p].knownAtCall /\ loc[p].token \notin revoked)
            => (loc[p].ok <=>
                   loc[p].vnow <= issuedLog[loc[p].token].CreatedAt
                                     + config * Hour)

C2_Witness ==
    \E p \in Workers :
        /\ Validated(p)
        /\ loc[p].knownAtCall
        /\ loc[p].token \notin revoked
        /\ loc[p].ok
        /\ loc[p].vnow = issuedLog[loc[p].token].CreatedAt + config * Hour

\* C3: a ValidateToken(t) call that begins after an InvalidateToken(t) call
\* has returned is not-ok, whatever runs concurrently.
C3_RevokedThenInvalid ==
    \A p \in Workers : loc[p].revokeDoneAtCall => ~loc[p].ok

C3_Witness ==
    \E p \in Workers :
        /\ Validated(p)
        /\ loc[p].revokeDoneAtCall
        /\ loc[p].token \in revoked
        /\ ~loc[p].ok

\* C4: InvalidateToken(t) returns true exactly when t is in the registry at
\* the call and then removes it; on a token that is not there it returns
\* false and leaves the map unchanged; once it has returned, t is not in the
\* registry, so ValidateToken(t) fails.
C4_InvalidateToken ==
    [][/\ \A p \in Workers :
            (pc[p] = "it_body" /\ pc'[p] = "it_unlock") =>
                LET t == loc[p].token
                IN  /\ loc'[p].ret = (t \in DOMAIN activeTokens)
                    /\ DOMAIN activeTokens' = (DOMAIN activeTokens) \ {t}
                    /\ \A x \in DOMAIN activeTokens' :
                           activeTokens'[x] = activeTokens[x]
                    /\ (t \notin DOMAIN activeTokens) =>
                           activeTokens' = activeTokens
       /\ \A t \in revokeReturned : t \notin DOMAIN activeTokens]_vars

C4_Witness ==
    \E p \in Workers :
        /\ pc[p] = "it_unlock"
        /\ ~loc[p].ret
        /\ loc[p].token \in revoked
        /\ loc[p].token \notin DOMAIN activeTokens

\* C5: ValidateToken of a token that is neither expired nor revoked returns
\* ok = true with exactly the username and user id GenerateToken was given.
C5_BoundIdentity ==
    \A p \in Workers :
        /\ loc[p].ok =>
              /\ loc[p].token \in DOMAIN issuedLog
              /\ loc[p].info = issuedLog[loc[p].token]
              /\ loc[p].info.Username \in Usernames
              /\ \E u \in users : /\ u.Username = loc[p].info.Username
                                  /\ u.ID = loc[p].info.UserID
        /\ (/\ Validated(p)
            /\ loc[p].knownAtCall
            /\ loc[p].token \notin revoked
            /\ loc[p].vnow <= issuedLog[loc[p].token].ExpiresAt)
              => loc[p].ok

C5_Witness ==
    \E p \in Workers :
        /\ Validated(p)
        /\ loc[p].ok
        /\ loc[p].info.Username = "admin"
        /\ loc[p].info.UserID = 1
        /\ \E t \in DOMAIN activeTokens :
               /\ t # loc[p].token
               /\ activeTokens[t] # loc[p].info

\* C6: AuthMiddleware calls the protected handler for a non-OPTIONS request
\* only if the request carries a Bearer token that ValidateToken accepted
\* during that request; with a missing, unknown, revoked or expired token
\* the answer is 401 and the handler is not called.
C6_MiddlewareGate ==
    \A p \in Workers :
        (pc[p] = "done" /\ req[p].op = "protected"
            /\ req[p].method # "OPTIONS") =>
            LET t == extractTokenFromHeader(req[p].header)
                good == /\ req[p].header.scheme = "Bearer "
                        /\ t \in DOMAIN issuedLog
                        /\ loc[p].token = t
                        /\ ~loc[p].revokeDoneAtCall
                        /\ loc[p].vnow <= issuedLog[t].ExpiresAt
                        /\ loc[p].ok
            IN  /\ resp[p].nextCalled => good
                /\ ~good => /\ resp[p].status = StatusUnauthorized
                            /\ ~resp[p].nextCalled

C6_Witness ==
    \E p, q \in Workers :
        /\ pc[p] = "done" /\ req[p].op = "protected"
        /\ resp[p].nextCalled
        /\ pc[q] = "done" /\ req[q].op = "protected"
        /\ req[q].method # "OPTIONS"
        /\ resp[q].status = StatusUnauthorized
        /\ loc[q].token = loc[p].token

\* C7: a token enters the registry only through a login whose credentials
\* were validated: every insertion is made by a login request whose
\* username and password match an active user, the entry is bound to that
\* user, and a login that fails leaves the registry as it was.
C7_TokensOnlyFromLogin ==
    [][/\ \A t \in (DOMAIN activeTokens') \ (DOMAIN activeTokens) :
            \E p \in Workers :
                /\ req[p].op = "login"
                /\ loc[p].token = t
                /\ pc[p] = "gt_body"
                /\ StorageValidateCredentials(users, req[p].username,
                                              req[p].password).err = "nil"
                /\ activeTokens'[t].Username = req[p].username
       /\ \A p \in Workers :
            (pc'[p] = "done" /\ pc[p] # "done" /\ req'[p].op = "login"
                /\ resp'[p].status # StatusOK) =>
                /\ activeTokens' = activeTokens
                /\ resp'[p].token = EmptyToken]_vars

C7_Witness ==
    \E p \in Workers :
        /\ pc[p] = "done"
        /\ req[p].op = "login"
        /\ resp[p].status = StatusUnauthorized
        /\ DOMAIN activeTokens # {}

\* C8: a login with an unknown username and a login with a known username
\* and a wrong password get the same answer: status 401, the same message,
\* no token.
LoginFailureCause(p) ==
    IF pc[p] = "done" /\ req[p].op = "login" /\ req[p].method = "POST"
          /\ req[p].username # "" /\ req[p].password # ""
    THEN StorageValidateCredentials(users, req[p].username,
                                    req[p].password).err
    ELSE "nil"

C8_LoginFailuresAlike ==
    \A p, q \in Workers :
        (/\ LoginFailureCause(p) = "user not found"
         /\ LoginFailureCause(q) = "invalid credentials") =>
            /\ resp[p] = resp[q]
            /\ resp[p].status = StatusUnauthorized
            /\ resp[p].token = EmptyToken

C8_Witness ==
    \E p, q \in Workers :
        /\ LoginFailureCause(p) = "user not found"
        /\ LoginFailureCause(q) = "invalid credentials"
        /\ resp[p].error = "Invalid username or password"

\* C9: the sweep of CleanupExpiredTokens removes exactly the entries whose
\* expiry had passed at the time of the sweep and leaves every other entry
\* as it was.
C9_CleanupSweep ==
    [][(cleaner.pc = "cl_body" /\ cleaner'.pc = "cl_unlock") =>
          /\ DOMAIN activeTokens' =
                {t \in DOMAIN activeTokens : activeTokens[t].ExpiresAt >= now}
          /\ \A t \in DOMAIN activeTokens' :
                activeTokens'[t] = activeTokens[t]]_vars

C9_Witness ==
    /\ cleaner.pc = "cl_unlock"
    /\ served = 2
    /\ handedOut = {1, 2}
    /\ DOMAIN activeTokens = {2}
    /\ issuedLog[1].ExpiresAt < now

\* C10: no two writers of the token map are inside their critical sections
\* together, and no writer is inside while a reader is; readers may be
\* inside together.
C10_MutualExclusion ==
    /\ Cardinality(WritersInside) <= 1
    /\ WritersInside # {} => ReadersInside = {}

C10_Witness ==
    /\ Cardinality(ReadersInside) >= 2
    /\ mutexW # NoHolder

\* ------------------------------------- RecipeHandler on a JSONStorage
\* Requests are served by concurrent workers; a handler's steps that touch
\* no shared state are taken together with its next step that does.  The
\* clock, the mutex and the file are each read or written in a step of
\* their own.  Time passes unseen between two readings of the clock: a
\* reading gives the last reading or any later time, and now is the last
\* reading.
RFirstFree(p) == rpc[p] = "idle" /\ (p = "w2" => rpc["w1"] # "idle")

\* the handler writes its response and returns; the goroutine ends
RDone(p, r) ==
    /\ rpc' = [rpc EXCEPT ![p] = "idle"]
    /\ rloc' = [rloc EXCEPT ![p] = NoRLoc]
    /\ rresp' = r

\* RecipeHandler.sendError, RecipeHandler.sendJSON
sendError(message, statusCode) == [status |-> statusCode, error |-> message]

sendJSON(statusCode) == [status |-> statusCode, error |-> ""]

\* time.Now()
ClockReadings == now..MaxTime

\* the ids a client names in a request: the ids it was given, and a UUID
\* no recipe has
RequestIDs == (1..(nextUUID - 1)) \cup {UnknownUUID}

\* the bodies of POST and PUT requests: one that is not JSON, one that
\* fails Validate, and one that passes: the soup is created, and updated
\* to serve four
RecipeRequests(body) ==
    {[bodyOK |-> FALSE, body |-> BodyOf(NilRecipe)],
     [bodyOK |-> TRUE, body |-> NoServings],
     [bodyOK |-> TRUE, body |-> body]}

\* a call for the id begins: what SaveRecipe returned for it before is no
\* longer the last word on it
Forget(m, id) == [x \in (DOMAIN m) \ {id} |-> m[x]]

\* createRecipe up to recipe.CreatedAt = time.Now(): decode, Validate,
\* uuid.New()
CreateRecipe(p) ==
    /\ RFirstFree(p)
    /\ served < MaxRequests
    /\ served' = served + 1
    /\ \E r \in RecipeRequests(Soup), t \in ClockReadings :
        IF ~r.bodyOK
        THEN /\ t = now
             /\ RDone(p, sendError("Invalid JSON format", StatusBadRequest))
             /\ UNCHANGED <<now, nextUUID>>
        ELSE IF Validate(r.body) # "nil"
        THEN /\ t = now
             /\ RDone(p, sendError("Validation error", StatusBadRequest))
             /\ UNCHANGED <<now, nextUUID>>
        ELSE /\ now' = t
             /\ rloc' = [rloc EXCEPT ![p] =
                            [NoRLoc EXCEPT
                                !.op = "create", !.id = nextUUID,
                                !.recipe = MakeRecipe(nextUUID, r.body, t,
                                                      ZeroTime)]]
             /\ nextUUID' = nextUUID + 1
             /\ rpc' = [rpc EXCEPT ![p] = "cr_now"]
             /\ UNCHANGED rresp
    /\ UNCHANGED <<authVars, recipesFile, jsMutexW, jsMutexReaders,
                   recipesTable, committed, lastCall>>

\* createRecipe: recipe.UpdatedAt = time.Now(), a second reading
CreateRecipeStamp(p) ==
    /\ rpc[p] = "cr_now"
    /\ \E t \in ClockReadings :
        /\ now' = t
        /\ rloc' = [rloc EXCEPT ![p].recipe.UpdatedAt = t]
    /\ rpc' = [rpc EXCEPT ![p] = "sv_lock"]
    /\ UNCHANGED <<served, authVars, recipesFile, jsMutexW,
                   jsMutexReaders, recipesTable, nextUUID, rresp, committed,
                   lastCall>>

\* updateRecipe up to the RLock of GetAllRecipes, which GetRecipeByID calls
UpdateRecipe(p) ==
    /\ RFirstFree(p)
    /\ served < MaxRequests
    /\ served' = served + 1
    /\ \E r \in RecipeRequests([Soup EXCEPT !.Servings = 4]),
          id \in RequestIDs :
        IF ~r.bodyOK
        THEN /\ id = UnknownUUID
             /\ RDone(p, sendError("Invalid JSON format", StatusBadRequest))
             /\ UNCHANGED <<jsMutexW, jsMutexReaders>>
        ELSE /\ JsRLock(p)
             /\ rloc' = [rloc EXCEPT ![p] =
                            [NoRLoc EXCEPT
                                !.op = "update", !.id = id,
                                !.recipe = MakeRecipe(id, r.body, ZeroTime,
                                                      ZeroTime),
                                !.expect = committed]]
             /\ rpc' = [rpc EXCEPT ![p] = "ga_read"]
             /\ UNCHANGED rresp
    /\ UNCHANGED <<now, authVars, recipesFile, recipesTable, nextUUID,
                   committed, lastCall>>

\* getAllRecipes (GET /api/recipes) up to the RLock of GetAllRecipes
GetAllRecipes(p) ==
    /\ RFirstFree(p)
    /\ served < MaxRequests
    /\ served' = served + 1
    /\ JsRLock(p)
    /\ rloc' = [rloc EXCEPT ![p] =
                   [NoRLoc EXCEPT !.op = "list", !.expect = committed]]
    /\ rpc' = [rpc EXCEPT ![p] = "ga_read"]
    /\ UNCHANGED <<now, authVars, recipesFile, recipesTable, nextUUID,
                   rresp, committed, lastCall>>

\* getRecipeByID (GET /api/recipes/{id}) up to the RLock of GetAllRecipes
GetRecipeByID(p) ==
    /\ RFirstFree(p)
    /\ served < MaxRequests
    /\ served' = served + 1
    /\ \E id \in RequestIDs \cup {EmptyID} :
        IF id = EmptyID
        THEN /\ RDone(p, sendError("Recipe ID is required",
                                   StatusBadRequest))
             /\ UNCHANGED <<jsMutexW, jsMutexReaders>>
        ELSE /\ JsRLock(p)
             /\ rloc' = [rloc EXCEPT ![p] =
                            [NoRLoc EXCEPT !.op = "get", !.id = id,
                                           !.expect = committed]]
             /\ rpc' = [rpc EXCEPT ![p] = "ga_read"]
             /\ UNCHANGED rresp
    /\ UNCHANGED <<now, authVars, recipesFile, recipesTable, nextUUID,
                   committed, lastCall>>

\* JSONStorage.GetAllRecipes: os.ReadFile and json.Unmarshal, under RLock
GetAllRecipesRead(p) ==
    /\ rpc[p] = "ga_read"
    /\ rloc' = [rloc EXCEPT ![p].list = JSONGetAllRecipes(recipesFile).recipes,
                            ![p].err = JSONGetAllRecipes(recipesFile).err]
    /\ rpc' = [rpc EXCEPT ![p] = "ga_runlock"]
    /\ UNCHANGED <<now, served, authVars, recipesFile, jsMutexW,
                   jsMutexReaders, recipesTable, nextUUID, rresp, committed,
                   lastCall>>

\* the deferred RUnlock, the loop of GetRecipeByID, and what the handler
\* does with the result; updateRecipe goes on to Validate and keeps the
\* creation time of the recipe it found
GetAllRecipesRUnlock(p) ==
    /\ rpc[p] = "ga_runlock"
    /\ JsRUnlock(p)
    /\ LET found == FindByID([recipes |-> rloc[p].list, err |-> rloc[p].err],
                             rloc[p].id)
       IN  IF rloc[p].op = "list"
           THEN IF rloc[p].err # "nil"
                THEN RDone(p, sendError("Failed to get recipes",
                                        StatusInternalServerError))
                ELSE RDone(p, sendJSON(StatusOK))
           ELSE IF found.err # "nil"
           THEN RDone(p, sendError("Recipe not found", StatusNotFound))
           ELSE IF rloc[p].op = "get"
           THEN RDone(p, sendJSON(StatusOK))
           ELSE IF Validate(rloc[p].recipe) # "nil"
           THEN RDone(p, sendError("Validation error", StatusBadRequest))
           ELSE /\ rloc' = [rloc EXCEPT
                               ![p].recipe.CreatedAt = found.recipe.CreatedAt,
                               ![p].list = <<>>,
                               ![p].expect = NoRLoc.expect]
                /\ rpc' = [rpc EXCEPT ![p] = "up_now"]
                /\ UNCHANGED rresp
    /\ UNCHANGED <<now, served, authVars, recipesFile, recipesTable,
                   nextUUID, committed, lastCall>>

\* updateRecipe: recipe.UpdatedAt = time.Now()
UpdateRecipeStamp(p) ==
    /\ rpc[p] = "up_now"
    /\ \E t \in ClockReadings :
        /\ now' = t
        /\ rloc' = [rloc EXCEPT ![p].recipe.UpdatedAt = t]
    /\ rpc' = [rpc EXCEPT ![p] = "sv_lock"]
    /\ UNCHANGED <<served, authVars, recipesFile, jsMutexW,
                   jsMutexReaders, recipesTable, nextUUID, rresp, committed,
                   lastCall>>

\* JSONStorage.SaveRecipe: js.mutex.Lock()
SaveRecipeLock(p) ==
    /\ rpc[p] = "sv_lock"
    /\ JsLockAcquire(p)
    /\ committed' = Forget(committed, rloc[p].id)
    /\ rpc' = [rpc EXCEPT ![p] = "sv_read"]
    /\ UNCHANGED <<now, served, authVars, recipesFile, recipesTable,
                   nextUUID, rloc, rresp, lastCall>>

\* getAllRecipesUnsafe, and the loop and the append on the list it gave
SaveRecipeRead(p) ==
    /\ rpc[p] = "sv_read"
    /\ JsLockEntered(p)
    /\ LET r == getAllRecipesUnsafe(recipesFile)
       IN  IF r.err # "nil"
           THEN /\ rloc' = [rloc EXCEPT ![p].err = r.err]
                /\ rpc' = [rpc EXCEPT ![p] = "sv_unlock"]
           ELSE /\ rloc' = [rloc EXCEPT
                               ![p].read = r.recipes,
                               ![p].recipes = SaveLoop(r.recipes,
                                                       rloc[p].recipe)]
                /\ rpc' = [rpc EXCEPT ![p] = "sv_write"]
    /\ UNCHANGED <<now, served, authVars, recipesFile, jsMutexW,
                   jsMutexReaders, recipesTable, nextUUID, rresp, committed,
                   lastCall>>

\* saveRecipes: json.MarshalIndent and os.WriteFile
SaveRecipeWrite(p) ==
    /\ rpc[p] = "sv_write"
    /\ \E outcome \in WriteOutcomes :
        LET w == saveRecipes(recipesFile, rloc[p].recipes, outcome)
        IN  /\ recipesFile' = w.file
            /\ rloc' = [rloc EXCEPT ![p].err = w.err]
    /\ rpc' = [rpc EXCEPT ![p] = "sv_unlock"]
    /\ UNCHANGED <<now, served, authVars, jsMutexW, jsMutexReaders,
                   recipesTable, nextUUID, rresp, committed, lastCall>>

\* the deferred Unlock, and the response of createRecipe or updateRecipe
SaveRecipeUnlock(p) ==
    /\ rpc[p] = "sv_unlock"
    /\ JsUnlock(p)
    /\ IF rloc[p].err # "nil"
       THEN /\ RDone(p, sendError(IF rloc[p].op = "create"
                                  THEN "Failed to save recipe"
                                  ELSE "Failed to update recipe",
                                  StatusInternalServerError))
            /\ UNCHANGED committed
       ELSE /\ RDone(p, sendJSON(IF rloc[p].op = "create"
                                 THEN StatusCreated ELSE StatusOK))
            /\ committed' = [x \in (DOMAIN committed) \cup {rloc[p].id} |->
                                IF x = rloc[p].id THEN rloc[p].recipe
                                ELSE committed[x]]
    /\ UNCHANGED <<now, served, authVars, recipesFile, recipesTable,
                   nextUUID, lastCall>>

\* deleteRecipe (DELETE /api/recipes/{id}) up to the Lock of DeleteRecipe
DeleteRecipe(p) ==
    /\ RFirstFree(p)
    /\ served < MaxRequests
    /\ served' = served + 1
    /\ \E id \in RequestIDs \cup {EmptyID} :
        IF id = EmptyID
        THEN /\ RDone(p, sendError("Recipe ID is required",
                                   StatusBadRequest))
             /\ UNCHANGED <<jsMutexW, jsMutexReaders, committed>>
        ELSE /\ JsLockAcquire(p)
             /\ committed' = Forget(committed, id)
             /\ rloc' = [rloc EXCEPT ![p] =
                            [NoRLoc EXCEPT !.op = "delete", !.id = id]]
             /\ rpc' = [rpc EXCEPT ![p] = "dl_read"]
             /\ UNCHANGED rresp
    /\ UNCHANGED <<now, authVars, recipesFile, recipesTable, nextUUID,
                   lastCall>>

\* getAllRecipesUnsafe, and the loop of DeleteRecipe on the list it gave
DeleteRecipeRead(p) ==
    /\ rpc[p] = "dl_read"
    /\ JsLockEntered(p)
    /\ LET r == getAllRecipesUnsafe(recipesFile)
           d == DeleteLoop(r.recipes, rloc[p].id)
       IN  IF r.err # "nil"
           THEN /\ rloc' = [rloc EXCEPT ![p].err = r.err]
                /\ rpc' = [rpc EXCEPT ![p] = "dl_unlock"]
           ELSE IF ~d.found
           THEN /\ rloc' = [rloc EXCEPT ![p].read = r.recipes,
                                        ![p].err = "not found"]
                /\ rpc' = [rpc EXCEPT ![p] = "dl_unlock"]
           ELSE /\ rloc' = [rloc EXCEPT ![p].read = r.recipes,
                                        ![p].recipes = d.recipes]
                /\ rpc' = [rpc EXCEPT ![p] = "dl_write"]
    /\ UNCHANGED <<now, served, authVars, recipesFile, jsMutexW,
                   jsMutexReaders, recipesTable, nextUUID, rresp, committed,
                   lastCall>>

DeleteRecipeWrite(p) ==
    /\ rpc[p] = "dl_write"
    /\ \E outcome \in WriteOutcomes :
        LET w == saveRecipes(recipesFile, rloc[p].recipes, outcome)
        IN  /\ recipesFile' = w.file
            /\ rloc' = [rloc EXCEPT ![p].err = w.err]
    /\ rpc' = [rpc EXCEPT ![p] = "dl_unlock"]
    /\ UNCHANGED <<now, served, authVars, jsMutexW, jsMutexReaders,
                   recipesTable, nextUUID, rresp, committed, lastCall>>

\* the deferred Unlock, and the response of deleteRecipe
DeleteRecipeUnlock(p) ==
    /\ rpc[p] = "dl_unlock"
    /\ JsUnlock(p)
    /\ IF rloc[p].err # "nil"
       THEN RDone(p, sendError("Failed to delete recipe", StatusNotFound))
       ELSE RDone(p, sendJSON(StatusOK))
    /\ UNCHANGED <<now, served, authVars, recipesFile, recipesTable,
                   nextUUID, committed, lastCall>>

NextStore ==
    \/ \E p \in Workers : CreateRecipe(p)
    \/ \E p \in Workers : CreateRecipeStamp(p)
    \/ \E p \in Workers : UpdateRecipe(p)
    \/ \E p \in Workers : UpdateRecipeStamp(p)
    \/ \E p \in Workers : GetAllRecipes(p)
    \/ \E p \in Workers : GetRecipeByID(p)
    \/ \E p \in Workers : GetAllRecipesRead(p)
    \/ \E p \in Workers : GetAllRecipesRUnlock(p)
    \/ \E p \in Workers : SaveRecipeLock(p)
    \/ \E p \in Workers : SaveRecipeRead(p)
    \/ \E p \in Workers : SaveRecipeWrite(p)
    \/ \E p \in Workers : SaveRecipeUnlock(p)
    \/ \E p \in Workers : DeleteRecipe(p)
    \/ \E p \in Workers : DeleteRecipeRead(p)
    \/ \E p \in Workers : DeleteRecipeWrite(p)
    \/ \E p \in Workers : DeleteRecipeUnlock(p)

SpecStore == Init /\ [][NextStore]_vars

\* -------------------------------- SaveRecipe calls on the relational store
\* SaveRecipe is two statements, each run by the database on its own: the
\* SELECT of GetRecipeByID, then the UPDATE or the INSERT it chose.  Calls
\* of two goroutines interleave between the statements.  CURRENT_TIMESTAMP
\* is a reading of the database clock.

\* SaveRecipe up to the return of GetRecipeByID
PgSaveRecipeSelect(p) ==
    /\ RFirstFree(p)
    /\ served < MaxRequests
    /\ served' = served + 1
    /\ \E id \in ClientUUIDs, body \in Bodies :
        LET existing == PgGetRecipeByID(recipesTable, id)
        IN  /\ rloc' = [rloc EXCEPT ![p] =
                           [NoRLoc EXCEPT
                               !.op = "save", !.id = id,
                               !.recipe = MakeRecipe(id, body, ZeroTime,
                                                     ZeroTime),
                               !.err = existing.err]]
            /\ rpc' = [rpc EXCEPT ![p] = "pg_exec"]
    /\ UNCHANGED <<now, authVars, recipesFile, jsMutexW, jsMutexReaders,
                   recipesTable, nextUUID, rresp, committed, lastCall>>

\* updateRecipe if GetRecipeByID found the recipe, createRecipe if not, and
\* the return of SaveRecipe
PgSaveRecipeExec(p) ==
    /\ rpc[p] = "pg_exec"
    /\ \E t \in ClockReadings :
        LET r == IF rloc[p].err = "nil"
                 THEN PgUpdateRecipe(recipesTable, rloc[p].recipe,
                                     ActingUserID, t)
                 ELSE PgCreateRecipe(recipesTable, rloc[p].recipe,
                                     ActingUserID, t, nextUUID)
        IN  /\ now' = t
            /\ recipesTable' = r.table
            /\ lastCall' = [NoCall EXCEPT !.op = "save",
                                          !.recipe = rloc[p].recipe,
                                          !.pgErr = r.err]
    /\ rpc' = [rpc EXCEPT ![p] = "idle"]
    /\ rloc' = [rloc EXCEPT ![p] = NoRLoc]
    /\ UNCHANGED <<served, authVars, recipesFile, jsMutexW, jsMutexReaders,
                   nextUUID, rresp, committed>>

NextRows ==
    \/ \E p \in Workers : PgSaveRecipeSelect(p)
    \/ \E p \in Workers : PgSaveRecipeExec(p)

SpecRows == Init /\ [][NextRows]_vars

\* ----------------------------------------------- properties of the stores
\* the recipe a row of table recipes is scanned into, without the two
\* user references the file-backed store does not keep
RecipeOf(row) ==
    MakeRecipe(row.ID, BodyOf(row), row.CreatedAt, row.UpdatedAt)

Elements(l) == {l[i] : i \in 1..Len(l)}

IDsOf(l) == {l[i].ID : i \in 1..Len(l)}

NewestFirst(l) ==
    \A i, j \in 1..Len(l) : i < j => l[i].CreatedAt >= l[j].CreatedAt

\* the step is a SaveRecipe, or a DeleteRecipe, made on both stores
SaveStep == served' = served + 1 /\ lastCall'.op = "save"

DeleteStep == served' = served + 1 /\ lastCall'.op = "delete"

\* C11: GetAllRecipes returns the stored recipes newest-created first, on
\* the file-backed store and on the relational store, after any sequence
\* of SaveRecipe and DeleteRecipe calls.
C11_ListNewestFirst ==
    lastCall.op = "list"
        => NewestFirst(lastCall.jsonList) /\ NewestFirst(lastCall.pgList)

\* C12: SaveRecipe of a recipe whose id is in the store updates that
\* record in place, on either store: the number of records stays, the
\* record takes the supplied fields, its modification time becomes the
\* time of the call, and its creation time stays what it was, whatever
\* creation time the caller supplied.
C12_SaveExistingUpdatesInPlace ==
    [][SaveStep =>
        LET r == lastCall'.recipe
            old == recipesFile.recipes
            new == recipesFile'.recipes
            i == IndexOfID(old, r.ID)
        IN  /\ i # 0 =>
                /\ lastCall'.jsonErr = "nil"
                /\ Len(new) = Len(old)
                /\ new[i].ID = r.ID
                /\ BodyOf(new[i]) = BodyOf(r)
                /\ new[i].UpdatedAt = now
                /\ new[i].CreatedAt = old[i].CreatedAt
            /\ r.ID \in DOMAIN recipesTable =>
                /\ lastCall'.pgErr = "nil"
                /\ DOMAIN recipesTable' = DOMAIN recipesTable
                /\ BodyOf(recipesTable'[r.ID]) = BodyOf(r)
                /\ recipesTable'[r.ID].UpdatedAt = now
                /\ recipesTable'[r.ID].CreatedAt
                       = recipesTable[r.ID].CreatedAt]_vars

\* C13: SaveRecipe of a recipe whose id is not in the store adds exactly
\* one record, on either store; the record has the supplied id or, when
\* none was supplied, a new non-empty id no other record has, and both
\* its timestamps are the time of the call.
C13_SaveNewInserts ==
    [][SaveStep =>
        LET r == lastCall'.recipe
            old == recipesFile.recipes
            new == recipesFile'.recipes
        IN  /\ r.ID \notin IDsOf(old) =>
                /\ lastCall'.jsonErr = "nil"
                /\ Len(new) = Len(old) + 1
                /\ Elements(old) \subseteq Elements(new)
                /\ \E n \in Elements(new) \ Elements(old) :
                    /\ n.ID # EmptyID
                    /\ n.ID \notin IDsOf(old)
                    /\ r.ID # EmptyID => n.ID = r.ID
                    /\ n.CreatedAt = now
                    /\ n.UpdatedAt = now
            /\ r.ID \notin DOMAIN recipesTable =>
                /\ lastCall'.pgErr = "nil"
                /\ \E id \in DOMAIN recipesTable' :
                    /\ DOMAIN recipesTable' = DOMAIN recipesTable \cup {id}
                    /\ id \notin DOMAIN recipesTable
                    /\ id # EmptyID
                    /\ r.ID # EmptyID => id = r.ID
                    /\ recipesTable'[id].CreatedAt = now
                    /\ recipesTable'[id].UpdatedAt = now
                /\ \A id \in DOMAIN recipesTable :
                    recipesTable'[id] = recipesTable[id]]_vars

\* a list without the recipes of one id, in the same order
WithoutID(l, id) == SelectSeq(l, LAMBDA x : x.ID # id)

ListEquivalent(a, b) ==
    LET pb == [i \in 1..Len(b) |-> RecipeOf(b[i])]
    IN  /\ Len(a) = Len(b)
        /\ Elements(a) = Elements(pb)
        /\ \A i, j \in 1..Len(a) : \A k, m \in 1..Len(b) :
             (i < j /\ pb[k] = a[i] /\ pb[m] = a[j] /\ m < k)
                 => a[i].CreatedAt = a[j].CreatedAt

\* C18: after the same SaveRecipe and DeleteRecipe calls on both stores,
\* GetAllRecipes returns on both the same ids with the same field values
\* in the same order, up to recipes created at the same time.
C18_BackendsListAlike ==
    lastCall.op = "list"
        => /\ lastCall.jsonErr = "nil"
           /\ ListEquivalent(lastCall.jsonList, lastCall.pgList)

\* C14: on the file-backed store behind RecipeHandler, a recipe saved
\* under an id that is not in the file is stored with its creation time
\* equal to its modification time; a recipe saved under an id that is in
\* the file takes the fields sent, a modification time strictly later than
\* the one stored before, and keeps the creation time stored before.
C14_UpsertTimestamps ==
    [][\A p \in Workers :
        (rpc[p] = "sv_write" /\ rpc'[p] = "sv_unlock"
         /\ rloc'[p].err = "nil") =>
            LET r == rloc[p].recipe
                i == IndexOfID(recipesFile.recipes, r.ID)
                k == IndexOfID(recipesFile'.recipes, r.ID)
                before == recipesFile.recipes[i]
                stored == recipesFile'.recipes[k]
            IN  /\ k # 0
                /\ i = 0 => stored.CreatedAt = stored.UpdatedAt
                /\ i # 0 => /\ BodyOf(stored) = BodyOf(r)
                            /\ stored.UpdatedAt > before.UpdatedAt
                            /\ stored.CreatedAt = before.CreatedAt]_vars

\* C16: a GetAllRecipes or GetRecipeByID call that begins after a
\* SaveRecipe of an id returned nil, with no DeleteRecipe and no later
\* SaveRecipe of that id begun in between, returns the recipe that was
\* saved.
C16_SavedThenRead ==
    \A p \in Workers : rpc[p] = "ga_runlock" =>
        \A id \in DOMAIN rloc[p].expect :
            (rloc[p].op = "list" \/ rloc[p].id = id) =>
                /\ rloc[p].err = "nil"
                /\ FindByID([recipes |-> rloc[p].list, err |-> "nil"],
                            id)
                       = [recipe |-> rloc[p].expect[id], err |-> "nil"]

\* the workers that have read the file in SaveRecipe or DeleteRecipe and
\* have not yet written it, and the workers that are about to read it in
\* GetAllRecipes
InFileSection == {p \in Workers : rpc[p] \in {"sv_write", "dl_write"}}

FileReaders == {p \in Workers : rpc[p] = "ga_read"}

\* C17: at most one SaveRecipe or DeleteRecipe is between its read and its
\* write of the file, and no GetAllRecipes reads the file meanwhile; so
\* the file still holds what the writer read, the list a SaveRecipe is
\* about to write holds every recipe of another id that is in the file, and
\* a file that parses holds every recipe whose SaveRecipe returned nil with
\* no DeleteRecipe or later SaveRecipe of its id begun since: concurrent
\* SaveRecipe calls of different ids lose neither record.
C17_FileSerialized ==
    /\ Cardinality(InFileSection) <= 1
    /\ InFileSection # {} => FileReaders = {}
    /\ \A p \in InFileSection :
        /\ recipesFile = MarshalIndent(rloc[p].read)
        /\ rpc[p] = "sv_write" =>
            \A x \in Elements(recipesFile.recipes) :
                x.ID # rloc[p].id => x \in Elements(rloc[p].recipes)
    /\ recipesFile.parses =>
        \A id \in DOMAIN committed :
            committed[id] \in Elements(recipesFile.recipes)

\* one SaveRecipe is about to write a file that holds a recipe, while a
\* SaveRecipe of another id waits for the lock
C17_Witness ==
    /\ rpc["w1"] = "sv_write"
    /\ rpc["w2"] = "sv_lock"
    /\ rloc["w1"].id # rloc["w2"].id
    /\ Len(recipesFile.recipes) = 1

\* C19: a SaveRecipe on the file-backed store writes the whole new
\* collection and returns nil, or leaves what GetAllRecipes returns as it
\* was: no step of a SaveRecipe that returns an error changes it.
C19_SaveAllOrNothing ==
    [][\A p \in Workers :
        (rpc[p] \in {"sv_lock", "sv_read", "sv_write", "sv_unlock"}
         /\ rpc'[p] # rpc[p]) =>
            \/ JSONGetAllRecipes(recipesFile')
                   = JSONGetAllRecipes(recipesFile)
            \/ /\ rpc[p] = "sv_write"
               /\ rloc'[p].err = "nil"
               /\ JSONGetAllRecipes(recipesFile')
                      = [recipes |-> rloc[p].recipes, err |-> "nil"]]_vars

\* a string holds another as a run of its letters, without regard to case
ContainsFold(s, t) ==
    \E i \in 0..(Len(s) - Len(t)) :
        SubSeq(Lower(s), i + 1, i + Len(t)) = Lower(t)

\* C20: SearchRecipes(term) returns exactly the recipes whose name holds
\* term without regard to case or that have an ingredient equal to term,
\* each once, in an order GetAllRecipes can give them in.
C20_SearchExact ==
    lastCall.op = "search" =>
        LET term == lastCall.term
            Match(r) == ContainsFold(r.Name, term) \/ AnyOf(term, r.Ingredients)
        IN  \E l \in PgGetAllRecipes(recipesTable) :
                lastCall.pgList = SelectSeq(l, Match)

\* C21: SearchRecipes("choc") on a table that holds a recipe named
\* "Chocolate Cake" and another recipe that has the ingredient "chocolate
\* chips" (and no "choc" in its name) returns both, and SearchRecipes for a
\* term that no name contains and no ingredient equals returns no recipe.
C21_SearchChoc ==
    lastCall.op = "search" =>
        LET rows == {recipesTable[x] : x \in DOMAIN recipesTable}
            found == Elements(lastCall.pgList)
        IN  /\ lastCall.term = Choc =>
                \A a, b \in rows :
                    (/\ a.Name = ChocolateCake.Name
                     /\ AnyOf(ChocolateChips, b.Ingredients)
                     /\ ~ContainsFold(b.Name, Choc))
                        => a \in found /\ b \in found
            /\ (\A r \in rows : /\ ~ContainsFold(r.Name, lastCall.term)
                                /\ ~AnyOf(lastCall.term, r.Ingredients))
                  => lastCall.pgList = <<>>

\* C22: GetRecipeByID and DeleteRecipe tell an id that does not exist from
\* a store that cannot be read or written, and the handlers answer the two
\* with different statuses: a request that failed on the store is not
\* answered with the 404 of an id that does not exist.
C22_NotFoundApartFromUnavailable ==
    [][\A p \in Workers :
        /\ (/\ rpc[p] = "ga_runlock" /\ rpc'[p] = "idle"
            /\ rloc[p].op = "get"
            /\ rloc[p].err # "nil")
               => rresp'.status \notin {StatusOK, StatusNotFound}
        /\ (/\ rpc[p] = "dl_unlock" /\ rpc'[p] = "idle"
            /\ rloc[p].err \notin {"nil", "not found"})
               => rresp'.status \notin {StatusOK, StatusNotFound}]_vars

\* C23: the modification time stored for an id never decreases: whenever
\* the file holds a recipe before and after a step, the recipe's UpdatedAt
\* after the step is not earlier than before it.
C23_UpdatedAtNeverDecreases ==
    [][(recipesFile.parses /\ recipesFile'.parses) =>
        \A i \in 1..Len(recipesFile.recipes) :
            \A k \in 1..Len(recipesFile'.recipes) :
                recipesFile.recipes[i].ID = recipesFile'.recipes[k].ID
                    => recipesFile'.recipes[k].UpdatedAt
                           >= recipesFile.recipes[i].UpdatedAt]_vars

\* the positions of a handler inside a call of the store
InStoreCall ==
    {"ga_read", "ga_runlock", "sv_lock", "sv_read", "sv_write", "sv_unlock",
     "dl_read", "dl_write", "dl_unlock"}

\* C25: a create or update request whose recipe fails Validate is answered
\* before any call of the store: no handler is inside a store call, read
\* or write, with a recipe that fails Validate.
C25_InvalidNeverReachesStore ==
    \A p \in Workers :
        (rpc[p] \in InStoreCall /\ rloc[p].op \in {"create", "update"})
            => Validate(rloc[p].recipe) = "nil"

\* C24: a login passes ValidateCredentials only when the users table holds
\* a row with the username that is active and whose stored hash matches
\* the password, and the user it is given is that row; once a user is
\* deactivated no login of theirs goes on to GenerateToken.
C24_OnlyActiveUsersLogIn ==
    [][\A p \in Workers :
        (pc[p] = "idle" /\ req'[p].op = "login" /\ pc'[p] = "gt_body") =>
            \E u \in users :
                /\ u.Username = req'[p].username
                /\ u.IsActive
                /\ CompareHashAndPassword(u.Password, req'[p].password)
                /\ loc'[p].user = u]_vars

\* a login of the deactivated admin with the password that matches the
\* stored hash was answered 401
C24_Witness ==
    \E p \in Workers : \E u \in users :
        /\ pc[p] = "done"
        /\ req[p].op = "login"
        /\ req[p].method = "POST"
        /\ u.Username = req[p].username
        /\ ~u.IsActive
        /\ CompareHashAndPassword(u.Password, req[p].password)
        /\ resp[p].status = StatusUnauthorized

\* C30: the result of ValidateToken is decided by the registry and the
\* clock alone: ok exactly when the token is in the map and the time read
\* is not after its expiry, whatever the users table holds; and a change
\* of the users table changes no entry of the registry.
C30_ValidityFromRegistryOnly ==
    [][/\ users' # users => activeTokens' = activeTokens
       /\ \A p \in Workers :
            (pc[p] = "vt_body" /\ pc'[p] = "vt_runlock") =>
                (loc'[p].ok <=>
                    /\ loc[p].token \in DOMAIN activeTokens
                    /\ ~After(now, activeTokens[loc[p].token].ExpiresAt))]_vars

\* ValidateToken has returned ok for a token whose user was deactivated
\* and given a new password since
C30_Witness ==
    \E p \in Workers : \E u \in users :
        /\ Validated(p)
        /\ loc[p].ok
        /\ u.ID = loc[p].info.UserID
        /\ ~u.IsActive
        /\ ~CompareHashAndPassword(u.Password, "admin123")

\* C27: an entry of the registry never changes while it is in the map; an
\* entry appears only by the insertion of GenerateToken and disappears
\* only by the delete of InvalidateToken or of removeToken or by the sweep
\* of CleanupExpiredTokens.
C27_EntriesNeverMutated ==
    [][/\ \A t \in (DOMAIN activeTokens) \cap (DOMAIN activeTokens') :
            activeTokens'[t] = activeTokens[t]
       /\ \A t \in (DOMAIN activeTokens') \ (DOMAIN activeTokens) :
            \E p \in Workers :
                /\ pc[p] = "gt_body" /\ pc'[p] = "gt_unlock"
                /\ loc[p].token = t
       /\ \A t \in (DOMAIN activeTokens) \ (DOMAIN activeTokens') :
            \/ \E p \in Workers :
                /\ pc[p] = "it_body" /\ pc'[p] = "it_unlock"
                /\ loc[p].token = t
            \/ /\ rmActive.pc = "body" /\ rmActive'.pc = "unlock"
               /\ rmActive.token = t
            \/ cleaner.pc = "cl_body" /\ cleaner'.pc = "cl_unlock"]_vars

\* the registry holds two tokens of one user, inserted at different times
C27_Witness ==
    \E t, u \in DOMAIN activeTokens :
        /\ activeTokens[t].Username = activeTokens[u].Username
        /\ activeTokens[t].CreatedAt < activeTokens[u].CreatedAt

\* C26: with the cleanup goroutine running and time passing, every token
\* in the map whose expiry the clock goes past is eventually out of the
\* map, revoked or not.
C26_ExpiredEventuallyGone ==
    \A t \in TokenIds :
        (t \in DOMAIN activeTokens /\ activeTokens[t].ExpiresAt < MaxTime)
            ~> (t \notin DOMAIN activeTokens)

\* a token that was never revoked has been taken out of the map after its
\* expiry, and no ValidateToken ever asked for its removal: the sweep of
\* the cleanup goroutine took it
C26_Witness ==
    \E t \in DOMAIN issuedLog :
        /\ t \notin DOMAIN activeTokens
        /\ t \notin revoked
        /\ issuedLog[t].ExpiresAt < now
        /\ served = 1

\* a ValidateToken call of worker p read a time after the expiry of the
\* token it was given
FoundExpired(p) ==
    /\ pc[p] \in {"vt_runlock", "done"}
    /\ req[p].op = "protected"
    /\ loc[p].token \in DOMAIN issuedLog
    /\ After(loc[p].vnow, issuedLog[loc[p].token].ExpiresAt)

\* C28: a ValidateToken call that finds its token expired returns not-ok
\* and the request is answered 401, whether the removal it asked for is
\* pending, running or done; ValidateToken itself leaves the map as it is,
\* the removal deletes in a step of its own when no read lock is held, and
\* no step of the removal touches a call's result; and every removal asked
\* for gets the lock, deletes and releases the lock.
C28_RemovalBesideValidate ==
    /\ [](\A p \in Workers :
            FoundExpired(p) =>
                /\ ~loc[p].ok
                /\ pc[p] = "done" => resp[p].status = StatusUnauthorized)
    /\ [][/\ \A p \in Workers :
                (pc[p] = "vt_body" /\ pc'[p] = "vt_runlock")
                    => activeTokens' = activeTokens
          /\ rmActive' # rmActive =>
                /\ loc' = loc /\ resp' = resp /\ pc' = pc
                /\ activeTokens' # activeTokens => mutexReaders = {}]_vars
    /\ \A t \in TokenIds :
            (rmPending[t] > 0)
                ~> (rmActive.token = t /\ rmActive.pc = "unlock")
    /\ (rmActive.pc # "none") ~> (rmActive.pc = "none")

\* a request with an expired token has been answered 401 while the
\* removal that its ValidateToken asked for has not yet started
C28_Witness ==
    \E p \in Workers :
        /\ FoundExpired(p)
        /\ pc[p] = "done"
        /\ resp[p].status = StatusUnauthorized
        /\ rmPending[loc[p].token] > 0
        /\ loc[p].token \in DOMAIN activeTokens

\* C29: on the relational store every SaveRecipe of an id that its
\* GetRecipeByID found returns nil, also when another SaveRecipe of the
\* same id runs between its two statements, and the row is then the one
\* this call wrote: all its fields and none of the other call's, with the
\* creation time and creator of the row as they were.
C29_LastWriterWins ==
    [][\A p \in Workers :
        (rpc[p] = "pg_exec" /\ rpc'[p] = "idle" /\ rloc[p].err = "nil") =>
            LET id == rloc[p].id
            IN  /\ lastCall'.pgErr = "nil"
                /\ id \in DOMAIN recipesTable'
                /\ BodyOf(recipesTable'[id]) = BodyOf(rloc[p].recipe)
                /\ recipesTable'[id].UpdatedBy = ActingUserID
                /\ recipesTable'[id].UpdatedAt = now'
                /\ recipesTable'[id].CreatedAt = recipesTable[id].CreatedAt
                /\ recipesTable'[id].CreatedBy = recipesTable[id].CreatedBy
                /\ \A x \in DOMAIN recipesTable' :
                      x # id => /\ x \in DOMAIN recipesTable
                                /\ recipesTable'[x] = recipesTable[x]]_vars

\* two SaveRecipe calls of one stored id with different fields are both
\* between their SELECT and their UPDATE
C29_Witness ==
    /\ rpc["w1"] = "pg_exec"
    /\ rpc["w2"] = "pg_exec"
    /\ rloc["w1"].id = rloc["w2"].id
    /\ rloc["w1"].err = "nil"
    /\ rloc["w2"].err = "nil"
    /\ rloc["w1"].recipe.Servings # rloc["w2"].recipe.Servings
    /\ rloc["w1"].id \in DOMAIN recipesTable

\* the tokens of the map that ValidateToken would accept at time t
Accepted(t) ==
    {x \in DOMAIN activeTokens : ~IsExpired(activeTokens[x], t)}

\* C31: the number GetActiveTokensCount returns is the number of tokens
\* for which ValidateToken would succeed at the moment of the call: the
\* tokens in the map that are not expired.
C31_CountIsAcceptedTokens ==
    [][(cleaner.pc = "ac_body" /\ cleaner'.pc = "ac_runlock") =>
            cleaner'.count = Cardinality(Accepted(now))]_vars

\* ------------------------------------------------ the configured expiry
\* The server is started on a config file whose token_expiry_hours is
\* absent or 0 (yaml leaves the int at 0), a positive number of hours, or a
\* negative one: loadConfig takes any integer.  Logins and requests to
\* protected routes are then served and the cleanup goroutine runs.
ConfigFileValues == {0, 1, 2, -1}

InitConfig == NewAuthService(ConfigFileValues) /\ StoreInit

SpecConfig == InitConfig /\ [][NextLive]_vars

\* C32: with token_expiry_hours absent or 0 every issued token expires 24
\* hours after its creation; with any other value it expires that number
\* of hours after its creation; and no token expires before its creation.
C32_ExpiryFromConfig ==
    \E raw \in ConfigFileValues :
        /\ config = LoadConfigExpiry(raw)
        /\ \A t \in DOMAIN issuedLog :
            LET info == issuedLog[t]
            IN  /\ raw = 0 =>
                    info.ExpiresAt = info.CreatedAt + 24 * Hour
                /\ raw # 0 =>
                    info.ExpiresAt = info.CreatedAt + raw * Hour
                /\ info.ExpiresAt >= info.CreatedAt

\* C33: a logout request that presents a token ends either with 200 and
\* the token out of the registry or with 401; it never ends with the 500
\* of "Failed to logout", whatever runs beside it.
C33_LogoutTwoOutcomes ==
    \A p \in Workers :
        (/\ pc[p] = "done"
         /\ req[p].op = "logout"
         /\ req[p].method = "POST"
         /\ extractTokenFromHeader(req[p].header) # EmptyToken) =>
            \/ /\ resp[p].status = StatusOK
               /\ extractTokenFromHeader(req[p].header)
                      \notin DOMAIN activeTokens
            \/ resp[p].status = StatusUnauthorized

\* C34: an update request never creates a record: the write of a
\* SaveRecipe made for an update leaves no id in the file that was not in
\* it just before, so a record deleted meanwhile does not come back.
C34_UpdateNeverCreates ==
    [][\A p \in Workers :
        (/\ rpc[p] = "sv_write" /\ rpc'[p] = "sv_unlock"
         /\ rloc[p].op = "update"
         /\ recipesFile.parses /\ recipesFile'.parses) =>
            IDsOf(recipesFile'.recipes) \subseteq IDsOf(recipesFile.recipes)]_vars

\* C35: whatever the interleaving of logins, validations, logouts, sweeps
\* and lazy removals, an entry leaves the registry only by the delete of
\* an InvalidateToken called for its token or when its expiry has passed:
\* removeToken and CleanupExpiredTokens delete only entries whose expiry
\* has passed.
C35_OnlyExpiredRemoved ==
    [][\A t \in (DOMAIN activeTokens) \ (DOMAIN activeTokens') :
        \/ \E p \in Workers :
            /\ pc[p] = "it_body" /\ pc'[p] = "it_unlock"
            /\ loc[p].token = t
        \/ After(now, activeTokens[t].ExpiresAt)]_vars

\* removeToken has deleted an expired token that was never revoked, and a
\* token that is not expired is still in the registry
C35_Witness ==
    \E t \in DOMAIN issuedLog : \E u \in DOMAIN activeTokens :
        /\ rmActive = [token |-> t, pc |-> "unlock"]
        /\ t \notin DOMAIN activeTokens
        /\ t \notin revoked
        /\ ~After(now, activeTokens[u].ExpiresAt)

\* C36: the delete of InvalidateToken(t) leaves every entry other than t
\* in the registry and as it was, the other tokens of t's user included;
\* the insertion of GenerateToken leaves every entry that was in the
\* registry in it and as it was, the earlier tokens of the same user
\* included.
C36_OnlyOwnToken ==
    [][\A p \in Workers :
        /\ (pc[p] = "it_body" /\ pc'[p] = "it_unlock") =>
              \A x \in (DOMAIN activeTokens) \ {loc[p].token} :
                  /\ x \in DOMAIN activeTokens'
                  /\ activeTokens'[x] = activeTokens[x]
        /\ (pc[p] = "gt_body" /\ pc'[p] = "gt_unlock") =>
              \A x \in DOMAIN activeTokens :
                  /\ x \in DOMAIN activeTokens'
                  /\ activeTokens'[x] = activeTokens[x]]_vars

\* InvalidateToken has deleted one of two tokens of one user and the other
\* is in the registry as it was issued
C36_Witness ==
    \E p \in Workers : \E x \in DOMAIN activeTokens :
        /\ pc[p] = "it_unlock"
        /\ loc[p].ret
        /\ loc[p].token \in DOMAIN issuedLog
        /\ loc[p].token \notin DOMAIN activeTokens
        /\ issuedLog[loc[p].token].Username = activeTokens[x].Username
        /\ activeTokens[x] = issuedLog[x]

\* C37: in the file-backed store, which starts empty, the collection in
\* the file has pairwise distinct ids after every sequence and
\* interleaving of SaveRecipe and DeleteRecipe calls.
C37_DistinctIDs ==
    recipesFile.parses =>
        \A i, j \in 1..Len(recipesFile.recipes) :
            i # j => recipesFile.recipes[i].ID # recipesFile.recipes[j].ID

\* a SaveRecipe made for an update has written a collection of two records
C37_Witness ==
    \E p \in Workers :
        /\ rpc[p] = "sv_unlock"
        /\ rloc[p].op = "update"
        /\ rloc[p].err = "nil"
        /\ recipesFile.parses
        /\ Len(recipesFile.recipes) = 2

\* ------------------------------------------- every call under fair scheduling
\* The token registry and the file-backed store have each a lock of their
\* own and no operation of one calls the other, so a behaviour of the
\* server is a behaviour of the registry beside a behaviour of the store.
\* Each is run here by itself, with every operation it has: the registry
\* as in Spec while the store has not been used, the store as in SpecStore
\* while the registry has not been used.  The Go scheduler runs every
\* goroutine that can run and a goroutine waiting in Lock or RLock gets
\* the mutex once it stays free; requests arrive or not as clients please.
RegistryUnused ==
    /\ DOMAIN activeTokens = {}
    /\ nextToken = 1
    /\ mutexW = NoHolder
    /\ mutexReaders = {}
    /\ pc = [p \in Workers |-> "idle"]
    /\ rmPending = [t \in TokenIds |-> 0]
    /\ rmActive.pc = "none"
    /\ tickerC = FALSE
    /\ cleaner.pc = "idle"

NextFair ==
    \/ StoreInit /\ Tick
    \/ \E p \in Workers : StoreInit /\ HandleLogin(p)
    \/ \E p \in Workers : StoreInit /\ GenerateTokenInsert(p)
    \/ \E p \in Workers : StoreInit /\ GenerateTokenUnlock(p)
    \/ \E p \in Workers : StoreInit /\ HandleLogout(p)
    \/ \E p \in Workers : StoreInit /\ AuthMiddleware(p)
    \/ \E p \in Workers : StoreInit /\ ValidateTokenBody(p)
    \/ \E p \in Workers : StoreInit /\ ValidateTokenRUnlock(p)
    \/ \E p \in Workers : StoreInit /\ InvalidateTokenLock(p)
    \/ \E p \in Workers : StoreInit /\ InvalidateTokenBody(p)
    \/ \E p \in Workers : StoreInit /\ InvalidateTokenUnlock(p)
    \/ \E p \in Workers : StoreInit /\ Finish(p)
    \/ \E t \in TokenIds : StoreInit /\ RemoveTokenLock(t)
    \/ StoreInit /\ RemoveTokenBody
    \/ StoreInit /\ RemoveTokenUnlock
    \/ StoreInit /\ CleanerWake
    \/ StoreInit /\ CleanupBody
    \/ StoreInit /\ CleanupUnlock
    \/ StoreInit /\ ActiveCountRLock
    \/ StoreInit /\ ActiveCountRead
    \/ StoreInit /\ ActiveCountRUnlock
    \/ \E p \in Workers : RegistryUnused /\ CreateRecipe(p)
    \/ \E p \in Workers : RegistryUnused /\ CreateRecipeStamp(p)
    \/ \E p \in Workers : RegistryUnused /\ UpdateRecipe(p)
    \/ \E p \in Workers : RegistryUnused /\ UpdateRecipeStamp(p)
    \/ \E p \in Workers : RegistryUnused /\ GetAllRecipes(p)
    \/ \E p \in Workers : RegistryUnused /\ GetRecipeByID(p)
    \/ \E p \in Workers : RegistryUnused /\ GetAllRecipesRead(p)
    \/ \E p \in Workers : RegistryUnused /\ GetAllRecipesRUnlock(p)
    \/ \E p \in Workers : RegistryUnused /\ SaveRecipeLock(p)
    \/ \E p \in Workers : RegistryUnused /\ SaveRecipeRead(p)
    \/ \E p \in Workers : RegistryUnused /\ SaveRecipeWrite(p)
    \/ \E p \in Workers : RegistryUnused /\ SaveRecipeUnlock(p)
    \/ \E p \in Workers : RegistryUnused /\ DeleteRecipe(p)
    \/ \E p \in Workers : RegistryUnused /\ DeleteRecipeRead(p)
    \/ \E p \in Workers : RegistryUnused /\ DeleteRecipeWrite(p)
    \/ \E p \in Workers : RegistryUnused /\ DeleteRecipeUnlock(p)

FairnessAll ==
    /\ WF_vars(StoreInit /\ Tick)
    /\ \A p \in Workers :
        /\ WF_vars(StoreInit /\ GenerateTokenInsert(p))
        /\ WF_vars(StoreInit /\ GenerateTokenUnlock(p))
        /\ WF_vars(StoreInit /\ ValidateTokenBody(p))
        /\ WF_vars(StoreInit /\ ValidateTokenRUnlock(p))
        /\ WF_vars(StoreInit /\ InvalidateTokenLock(p))
        /\ WF_vars(StoreInit /\ InvalidateTokenBody(p))
        /\ WF_vars(StoreInit /\ InvalidateTokenUnlock(p))
        /\ WF_vars(StoreInit /\ Finish(p))
        /\ WF_vars(RegistryUnused /\ CreateRecipeStamp(p))
        /\ WF_vars(RegistryUnused /\ UpdateRecipeStamp(p))
        /\ WF_vars(RegistryUnused /\ GetAllRecipesRead(p))
        /\ WF_vars(RegistryUnused /\ GetAllRecipesRUnlock(p))
        /\ WF_vars(RegistryUnused /\ SaveRecipeLock(p))
        /\ WF_vars(RegistryUnused /\ SaveRecipeRead(p))
        /\ WF_vars(RegistryUnused /\ SaveRecipeWrite(p))
        /\ WF_vars(RegistryUnused /\ SaveRecipeUnlock(p))
        /\ WF_vars(RegistryUnused /\ DeleteRecipeRead(p))
        /\ WF_vars(RegistryUnused /\ DeleteRecipeWrite(p))
        /\ WF_vars(RegistryUnused /\ DeleteRecipeUnlock(p))
    /\ \A t \in TokenIds : WF_vars(StoreInit /\ RemoveTokenLock(t))
    /\ WF_vars(StoreInit /\ RemoveTokenBody)
    /\ WF_vars(StoreInit /\ RemoveTokenUnlock)
    /\ WF_vars(StoreInit /\ CleanerWake)
    /\ WF_vars(StoreInit /\ CleanupBody)
    /\ WF_vars(StoreInit /\ CleanupUnlock)
    /\ WF_vars(StoreInit /\ ActiveCountRLock)
    /\ WF_vars(StoreInit /\ ActiveCountRead)
    /\ WF_vars(StoreInit /\ ActiveCountRUnlock)

SpecFair == Init /\ [][NextFair]_vars /\ FairnessAll

\* the goroutines that take the registry's lock
Holders == Workers \cup {Cleaner, Remover}

\* no request is being served, no removal is waiting or running, the
\* cleanup goroutine waits for its ticker and no call on the store is
\* under way
Quiet ==
    /\ \A p \in Workers : pc[p] \in {"idle", "done"} /\ rpc[p] = "idle"
    /\ \A t \in TokenIds : rmPending[t] = 0
    /\ rmActive.pc = "none"
    /\ cleaner.pc = "idle"

\* C38: no goroutine holds a lock of the registry or of the file-backed
\* store in both modes at once (none takes the lock again while it holds
\* it), a call that has returned holds no lock, and with fair scheduling
\* nothing waits for ever: whatever is under way, there comes a moment
\* when every request has been answered, every removal that ValidateToken
\* spawned under its read lock has run to its end, the round of the
\* cleanup goroutine has ended and every call on the store has returned.
C38_EveryCallReturns ==
    /\ [](\A h \in Holders : ~(mutexW = h /\ h \in mutexReaders))
    /\ [](\A p \in Workers : ~(jsMutexW = p /\ p \in jsMutexReaders))
    /\ [](\A p \in Workers :
            /\ pc[p] \in {"idle", "done"} =>
                  (mutexW # p /\ p \notin mutexReaders)
            /\ rpc[p] = "idle" =>
                  (jsMutexW # p /\ p \notin jsMutexReaders))
    /\ [](cleaner.pc = "idle" =>
            (mutexW # Cleaner /\ Cleaner \notin mutexReaders))
    /\ [](rmActive.pc = "none" => mutexW # Remover)
    /\ []<>Quiet

\* a logout waits in Lock while a ValidateToken that has spawned a removal
\* still holds the read lock
C38_Witness ==
    \E p, q \in Workers :
        /\ pc[p] = "it_body"
        /\ mutexW = p
        /\ q \in mutexReaders
        /\ pc[q] = "vt_runlock"
        /\ loc[q].token \in TokenIds
        /\ rmPending[loc[q].token] > 0

\* ------------------------------------------------- constructing the store
\* main constructs the JSONStorage on a disk where the recipes file is
\* absent, or is there from an earlier run (holding up to two recipes), or
\* was left unparseable by a write that failed.  GetAllRecipes is then
\* called.
AbsentFile == [parses |-> FALSE, recipes |-> <<>>, errno |-> "ENOENT"]

DiskFiles ==
    LET stored == {MakeRecipe(id, body, t, t) :
                      id \in ClientUUIDs, body \in Bodies, t \in 0..1}
    IN  {AbsentFile, PartialFile, EmptyJSONFile}
        \cup {MarshalIndent(<<r>>) : r \in stored}
        \cup {MarshalIndent(<<r, q>>) :
                r \in {x \in stored : x.ID = UnknownUUID},
                q \in {x \in stored : x.ID # UnknownUUID}}

\* NewJSONStorage, called once (lastCall.op is "" until then): the file
\* is written with an empty list when os.Stat says it does not exist; what
\* saveRecipes returns is dropped.  A parent directory that MkdirAll could
\* not create makes the write fail to open.
NewJSONStorage ==
    /\ lastCall.op = ""
    /\ IF recipesFile = AbsentFile
       THEN \E outcome \in WriteOutcomes :
                recipesFile' = saveRecipes(recipesFile, <<>>, outcome).file
       ELSE UNCHANGED recipesFile
    /\ lastCall' = [NoCall EXCEPT !.op = "new"]
    /\ UNCHANGED <<now, served, authVars, jsMutexW, jsMutexReaders,
                   recipesTable, nextUUID, rpc, rloc, rresp, committed>>

\* JSONStorage.GetAllRecipes, os.ReadFile included
ReadAllRecipes(file) ==
    IF file = AbsentFile
    THEN [recipes |-> <<>>, err |-> "failed to read recipes file"]
    ELSE JSONGetAllRecipes(file)

NewList ==
    /\ lastCall.op # ""
    /\ lastCall' = [NoCall EXCEPT
                       !.op = "list",
                       !.jsonErr = ReadAllRecipes(recipesFile).err,
                       !.jsonList = ReadAllRecipes(recipesFile).recipes]
    /\ UNCHANGED <<now, served, authVars, recipesFile, jsMutexW,
                   jsMutexReaders, recipesTable, nextUUID, rpc, rloc, rresp,
                   committed>>

NextNew ==
    \/ NewJSONStorage
    \/ NewList

InitNew == AuthInit /\ \E file \in DiskFiles : StoreOn(file)

SpecNew == InitNew /\ [][NextNew]_vars

\* C39: constructing the store where the file is absent leaves an empty
\* collection, which GetAllRecipes returns with no error; constructing it
\* where the file exists leaves the file as it was.
C39_ConstructionCreatesOrKeeps ==
    [][(lastCall.op = "" /\ lastCall'.op = "new") =>
        /\ recipesFile = AbsentFile =>
              /\ ReadAllRecipes(recipesFile').err = "nil"
              /\ ReadAllRecipes(recipesFile').recipes = <<>>
        /\ recipesFile # AbsentFile => recipesFile' = recipesFile]_vars

=============================================================================
